---------------------------- MODULE Spec2Model ----------------------------
(***************************************************************************)
(* Verification model of the asset aggregation service                     *)
(* (src/src/services/aggregationService.js).                               *)
(*                                                                         *)
(* Numbers.  Units, NAVs and cash amounts are JavaScript doubles in the    *)
(* code.  The model takes them as integer multiples of one quantum (one    *)
(* whole unit), on which the code's additions, subtractions, products and  *)
(* Math.min are exact.  The epsilon 1e-8 of the code lies strictly between *)
(* 0 and 1 quantum, so for a whole number x the tests x > 1e-8 and         *)
(* x <= 1e-8 are x > EPS and x <= EPS with EPS = 0.                        *)
(*                                                                         *)
(* Strings.  A transaction kind is read as the sequence of its characters  *)
(* (Chars), so that String.prototype.includes and toLowerCase are          *)
(* computed, not assumed.  Scheme and account names are opaque atoms.      *)
(*                                                                         *)
(* Dates.  A date field is NoDate (null / absent) or a day number >= 1;     *)
(* new Date(d).getTime() of a present date is that number.                 *)
(***************************************************************************)
EXTENDS Integers, Sequences, FiniteSets, TLC

VARIABLES
    fn,             \* the aggregator this invocation runs
    pc,             \* position inside the invocation
    n,              \* input rows consumed so far
    txn,            \* the row the forEach is on (the last one it was given)
    lotsByScheme,   \* calculateNPSHoldings: key -> FIFO queue of lots
    keyOrder,       \* insertion order of the keys of lotsByScheme / grouped
    remaining,      \* calculateNPSHoldings: `remaining` of the sale loop
    result,         \* the value the invocation returned
    pre,            \* history: lotsByScheme when the current row was read
    iters,          \* history: iterations of the current sale loop
    bal,            \* history: per key, units added minus units each sale could take
    net,            \* history: per key, units bought minus units sold
    navOf,          \* history: per row index, the NAV of the open lot bought there
    acc,            \* calculatePPFHoldings: invested / interest of the account
    tot,            \* PPF, EPF: totalInvested / totalInterest
    preAcc,         \* history: the buckets the current row was applied to
    transactions,   \* whole invocations: the argument
    preparedTransactions, \* whole invocations: the list the forEach runs over
    flows,          \* calculateXirr: the argument
    cashflows,      \* calculateXirr: the mapped, filtered and sorted flows
    low,            \* calculateXirr: lower end of the bracket
    high,           \* calculateXirr: upper end of the bracket
    mid,            \* calculateXirr: the midpoint last evaluated
    iter,           \* calculateXirr: the loop counter i
    invocations,    \* two invocations in progress: argument, position, result
    frames,         \* the local variables each invocation created at entry
    fetches,        \* an analysis request: the state of each fetchAllRows promise
    req,            \* a request: what the handlers have done with it so far
    res,            \* a request: the response, status and bodies sent
    cache,          \* the result cache: key -> entry
    clock           \* the result cache: the time, in minutes

vars == <<fn, pc, n, txn, lotsByScheme, keyOrder, remaining, result,
          pre, iters, bal, net, navOf, acc, tot, preAcc,
          transactions, preparedTransactions,
          flows, cashflows, low, high, mid, iter, invocations, frames,
          fetches, req, res, cache, clock>>

npsVars == <<lotsByScheme, remaining, pre, iters, bal, net, navOf>>
accVars == <<acc, tot, preAcc>>
callVars == <<transactions, preparedTransactions>>
xirrVars == <<flows, cashflows, low, high, mid, iter>>
pairVars == <<invocations, frames>>
webVars == <<fetches, req, res, cache, clock>>
restVars == <<xirrVars, pairVars, webVars>>

---------------------------------------------------------------------------
(* Bounds of the model *)

MaxTxns == 3
MaxRows == 3
MaxFlows == 2
MaxPairRows == 2

(* Program constants *)

EPS == 0

---------------------------------------------------------------------------
(* Raw field values, as the data source delivers them *)

Null == [t |-> "null", v |-> 0]
Num(x) == [t |-> "num", v |-> x]
Undefined == [t |-> "undefined", v |-> 0]      \* a field the row does not have
NaN == [t |-> "nan", v |-> 0]
Infinity == [t |-> "inf", v |-> 0]
True == [t |-> "bool", v |-> 0]
Str(s) == [t |-> "str", v |-> 0, s |-> s]      \* a text, as its characters

Front(s) == SubSeq(s, 1, Len(s) - 1)
Last(s) == s[Len(s)]

Abs(x) == IF x < 0 THEN -x ELSE x
Min(a, b) == IF a <= b THEN a ELSE b
Max(a, b) == IF a >= b THEN a ELSE b

(* Strings as sequences of characters *)

UpperCase == <<"A","B","C","D","E","F","G","H","I","J","K","L","M",
               "N","O","P","Q","R","S","T","U","V","W","X","Y","Z">>
LowerCase == <<"a","b","c","d","e","f","g","h","i","j","k","l","m",
               "n","o","p","q","r","s","t","u","v","w","x","y","z">>

LowerChar(c) ==
    IF \E i \in 1..26 : UpperCase[i] = c
    THEN LowerCase[CHOOSE i \in 1..26 : UpperCase[i] = c]
    ELSE c

toLowerCase(s) == [i \in 1..Len(s) |-> LowerChar(s[i])]

includes(s, kw) ==
    \E i \in 1..(Len(s) - Len(kw) + 1) : SubSeq(s, i, i + Len(kw) - 1) = kw

kwBuy == <<"b","u","y">>
kwSell == <<"s","e","l","l">>
kwRedeem == <<"r","e","d","e","e","m">>
kwWithdraw == <<"w","i","t","h","d","r","a","w">>
kwSwitchOut == <<"s","w","i","t","c","h"," ","o","u","t">>
kwExit == <<"e","x","i","t">>
kwDeposit == <<"d","e","p","o","s","i","t">>
kwInterest == <<"i","n","t","e","r","e","s","t">>
kwWithdrawal == <<"w","i","t","h","d","r","a","w","a","l">>
kwSavings == <<"s","a","v","i","n","g","s">>
kwDemat == <<"d","e","m","a","t">>
kwSip == <<"s","i","p">>
kwContribution == <<"c","o","n","t","r","i","b","u","t","i","o","n">>

(* Numbers read from text.  A number of the model is a count of quanta of  *)
(* 1 / TextScale, so that every decimal a text of the model can spell is a *)
(* whole count: the text "1" reads as TextScale quanta.                    *)

MaxText == 3

RECURSIVE Pow(_, _)
Pow(base, e) == IF e = 0 THEN 1 ELSE base * Pow(base, e - 1)

TextScale == Pow(10, MaxText)

Digits == <<"0","1","2","3","4","5","6","7","8","9">>
isDigit(c) == \E i \in 1..10 : Digits[i] = c
DigitValue(c) == (CHOOSE i \in 1..10 : Digits[i] = c) - 1

(* String(value) *)
String(value) ==
    CASE value.t = "str" -> value.s
      [] value.t = "bool" -> <<"t","r","u","e">>
      [] value.t = "null" -> <<"n","u","l","l">>
      [] value.t = "undefined" -> <<"u","n","d","e","f","i","n","e","d">>
      [] value.t = "nan" -> <<"N","a","N">>
      [] value.t = "inf" -> <<"I","n","f","i","n","i","t","y">>
      [] OTHER -> <<>>

(* .replace(/[^0-9.-]/g, '') *)
Strip(s) == SelectSeq(s, LAMBDA c : isDigit(c) \/ c = "." \/ c = "-")

(* The length of the run of digits a text starts with *)
RECURSIVE DigitRun(_)
DigitRun(s) ==
    IF s = <<>> THEN 0
    ELSE IF isDigit(Head(s)) THEN 1 + DigitRun(Tail(s)) ELSE 0

(* The digits ds read as a whole number *)
RECURSIVE DigitsValue(_)
DigitsValue(ds) ==
    IF ds = <<>> THEN 0 ELSE 10 * DigitsValue(Front(ds)) + DigitValue(Last(ds))

(* The decimal with whole digits w and fraction digits f, in quanta *)
DecimalValue(w, f) ==
    DigitsValue(w) * TextScale + DigitsValue(f) * Pow(10, MaxText - Len(f))

(* parseFloat(s): the longest prefix of s that is a decimal literal (an    *)
(* optional sign, digits, an optional point and digits, one digit at      *)
(* least), NaN when there is none.  Exponents and the word Infinity are   *)
(* not spelled by the texts of the model.                                  *)
parseFloat(s) ==
    LET signed == IF s = <<>> THEN FALSE ELSE Head(s) \in {"-", "+"}
        body == IF signed THEN Tail(s) ELSE s
        i == DigitRun(body)
        rest == SubSeq(body, i + 1, Len(body))
        point == IF rest = <<>> THEN FALSE ELSE Head(rest) = "."
        j == IF point THEN DigitRun(Tail(rest)) ELSE 0
        magnitude == DecimalValue(SubSeq(body, 1, i), SubSeq(rest, 2, j + 1))
    IN  IF i + j = 0 THEN NaN
        ELSE IF signed /\ Head(s) = "-" THEN Num(-magnitude) ELSE Num(magnitude)

isFinite(value) == value.t = "num"

toNumber(value) ==
    IF value.t \in {"num", "nan", "inf"}
    THEN IF isFinite(value) THEN value.v ELSE 0
    ELSE IF value.t \in {"null", "undefined"} THEN 0
    ELSE LET parsed == parseFloat(Strip(String(value)))
         IN  IF isFinite(parsed) THEN parsed.v ELSE 0

FIFO_KEYWORDS == {kwSell, kwRedeem, kwWithdraw, kwSwitchOut, kwExit}

(* Dates *)

NoDate == 0
PositiveInfinity == 1000000
getTime(date) == IF date = NoDate THEN PositiveInfinity ELSE date

RECURSIVE SumSeq(_)
SumSeq(s) == IF s = <<>> THEN 0 ELSE Head(s) + SumSeq(Tail(s))

---------------------------------------------------------------------------
(* calculateNPSHoldings: input domain *)

Schemes == {"", "SchemeE", "SchemeG"}
Accounts == {"A1"}
Keys == (Schemes \ {""}) \X Accounts

NPSKinds == {"Buy", "sip", "sell", "exit buyback"}
PPFKinds == {"Deposit", "interest", "withdrawal", "transfer"}
EPFKinds == {"Contribution", "Interest credit", "Withdrawal"}
BankKinds == {"Savings", "demat", "current"}
FundKinds == {"Purchase", "Redeem"}

(* String(kind): the characters of each kind text the model uses *)
Chars(text) ==
    CASE text = "Buy" -> <<"B","u","y">>
      [] text = "sip" -> <<"s","i","p">>
      [] text = "sell" -> <<"s","e","l","l">>
      [] text = "exit buyback" -> <<"e","x","i","t"," ","b","u","y","b","a","c","k">>
      [] text = "Deposit" -> <<"D","e","p","o","s","i","t">>
      [] text = "interest" -> <<"i","n","t","e","r","e","s","t">>
      [] text = "withdrawal" -> <<"w","i","t","h","d","r","a","w","a","l">>
      [] text = "transfer" -> <<"t","r","a","n","s","f","e","r">>
      [] text = "Contribution" -> <<"C","o","n","t","r","i","b","u","t","i","o","n">>
      [] text = "Interest credit" ->
            <<"I","n","t","e","r","e","s","t"," ","c","r","e","d","i","t">>
      [] text = "Withdrawal" -> <<"W","i","t","h","d","r","a","w","a","l">>
      [] text = "Savings" -> <<"S","a","v","i","n","g","s">>
      [] text = "Purchase" -> <<"P","u","r","c","h","a","s","e">>
      [] text = "Redeem" -> <<"R","e","d","e","e","m">>
      [] text = "demat" -> <<"d","e","m","a","t">>
      [] text = "current" -> <<"c","u","r","r","e","n","t">>
      [] OTHER -> <<>>

(* String(txn.transaction_type || '').toLowerCase(), kind by kind *)
LowerType ==
    [text \in NPSKinds \cup PPFKinds \cup EPFKinds \cup BankKinds
                \cup FundKinds \cup {""} |->
        toLowerCase(Chars(text))]

UnitValues == {Null, Num(-3), Num(1), Num(2)}
NavValues == {Num(1), Num(2)}

NPSRowDomain ==
    [ scheme_name : Schemes,
      account_name : Accounts,
      transaction_type : NPSKinds,
      units : UnitValues,
      nav : NavValues,
      date : 1..MaxTxns ]

NPSRows == {row : row \in NPSRowDomain}

NoRow == [ scheme_name |-> "", account_name |-> "A1",
           transaction_type |-> "", units |-> Null, nav |-> Null,
           date |-> NoDate ]

(* One element of preparedTransactions before the filter: the .map callback *)
Prepare(row, index) ==
    [ schemeName |-> row.scheme_name,
      accountName |-> row.account_name,
      type |-> LowerType[row.transaction_type],
      units |-> toNumber(row.units),
      nav |-> toNumber(row.nav),
      effectiveDate |-> row.date,
      index |-> index ]

(* The .filter callback: rows without a scheme name were mapped to null *)
KeptTx(tx) ==
    /\ tx.schemeName # ""
    /\ Abs(tx.units) > EPS

Kept(row) == KeptTx(Prepare(row, 0))

KeyOf(tx) == <<tx.schemeName, tx.accountName>>

isSaleType_SignOnly(tx) == tx.units < 0

isSaleType(tx) ==
    tx.units < 0 \/ \E kw \in FIFO_KEYWORDS : includes(tx.type, kw)

isBuy(tx) == includes(tx.type, kwBuy) /\ tx.units > 0

NewLot(tx) ==
    [ units |-> tx.units,
      cost |-> tx.units * tx.nav,
      date |-> tx.effectiveDate,
      order |-> getTime(tx.effectiveDate),
      sequence |-> tx.index ]

(* Variants of the loop body with a slip in it, for the sensitivity runs *)
SaleIteration_WholeLot(lots, rem) ==
    LET lot == lots[1]
        deduction == lot.units
    IN  [ lots |-> Tail(lots), remaining |-> rem - deduction ]

SaleIteration_Lifo(lots, rem) ==
    LET last == Len(lots)
        lot == lots[last]
        deduction == Min(rem, lot.units)
        left == lot.units - deduction
    IN  [ lots |-> IF left <= EPS
                   THEN SubSeq(lots, 1, last - 1)
                   ELSE SubSeq(lots, 1, last - 1) \o <<[lot EXCEPT !.units = left]>>,
          remaining |-> rem - deduction ]

SaleIteration_NoShift(lots, rem) ==
    LET lot == lots[1]
        deduction == Min(rem, lot.units)
        left == lot.units - deduction
    IN  [ lots |-> <<[lot EXCEPT !.units = left]>> \o Tail(lots),
          remaining |-> rem - deduction ]

(* One iteration of the while loop of a sale on one queue *)
SaleIteration(lots, rem) ==
    LET lot == lots[1]
        deduction == Min(rem, lot.units)
        left == lot.units - deduction
    IN  [ lots |-> IF left <= EPS
                   THEN Tail(lots)
                   ELSE <<[lot EXCEPT !.units = left]>> \o Tail(lots),
          remaining |-> rem - deduction ]

SaleLoopCondition(lots, rem) == rem > EPS /\ lots # <<>>

Units(lots) == SumSeq([i \in 1..Len(lots) |-> lots[i].units])


(* The part of the forEach body every prepared row runs: lines 202-206 *)
WithKey(order, key) ==
    IF \E i \in 1..Len(order) : order[i] = key THEN order ELSE Append(order, key)

(* Variant of the test with a slip in it: every key is reported *)
HasOpenLots_Always(lots) == TRUE

HasOpenLots(lots) == \E i \in 1..Len(lots) : lots[i].units > EPS

(* Variant of the lookup with a slip in it: a missing price is not 0 *)
cmpGet_Missing(cmpMap, schemeName) ==
    IF schemeName \in DOMAIN cmpMap THEN cmpMap[schemeName] ELSE 1

(* cmpMap.get(schemeName) || 0 *)
cmpGet(cmpMap, schemeName) ==
    IF schemeName \in DOMAIN cmpMap THEN cmpMap[schemeName] ELSE 0

(* Lines 233-264: one holding per key with open lots, in Map order *)
Holding(key, lots, cmpMap) ==
    LET openLots == SelectSeq(lots, LAMBDA lot : lot.units > EPS)
        totalUnits == Units(openLots)
        totalCost == SumSeq([i \in 1..Len(openLots) |-> Max(openLots[i].cost, 0)])
        cmp == cmpGet(cmpMap, key[1])
    IN  [ schemeName |-> key[1],
          accountName |-> key[2],
          units |-> totalUnits,
          invested |-> totalCost,
          marketValue |-> totalUnits * cmp,
          cmp |-> cmp ]

RECURSIVE Holdings(_, _, _)
Holdings(order, lotsOf, cmpMap) ==
    IF order = <<>> THEN <<>>
    ELSE LET key == Head(order)
             rest == Holdings(Tail(order), lotsOf, cmpMap)
         IN  IF HasOpenLots(lotsOf[key])
             THEN <<Holding(key, lotsOf[key], cmpMap)>> \o rest
             ELSE rest

NPSResult(order, lotsOf, cmpMap) ==
    LET holdings == Holdings(order, lotsOf, cmpMap)
    IN  [ marketValue |-> SumSeq([i \in 1..Len(holdings) |-> holdings[i].marketValue]),
          invested |-> SumSeq([i \in 1..Len(holdings) |-> holdings[i].invested]),
          holdings |-> holdings ]

(* The price lookup of the model: SchemeE is priced, SchemeG has no entry *)
CmpMaps == { [s \in {"SchemeE"} |-> 3] }

NoResult == [marketValue |-> 0, invested |-> 0, holdings |-> <<>>]
EmptyLots == [k \in Keys |-> <<>>]
ZeroBal == [k \in Keys |-> 0]
NoNavs == [i \in 0..(MaxTxns - 1) |-> 0]

---------------------------------------------------------------------------
(* calculateNPSHoldings, one row at a time.  The rows are read in the     *)
(* order of preparedTransactions; the invocations of this specification   *)
(* are those whose i-th input row is dated day i, on which the sort of    *)
(* lines 193-198 changes nothing and index is the row's position.         *)

NPSFilteredRows == {row \in NPSRows : ~Kept(row)}
NPSBuyRows == {row \in NPSRows : Kept(row) /\ isBuy(Prepare(row, 0))}
NPSSaleRows ==
    {row \in NPSRows :
        Kept(row) /\ ~isBuy(Prepare(row, 0)) /\ isSaleType(Prepare(row, 0))}
NPSOtherRows ==
    {row \in NPSRows :
        Kept(row) /\ ~isBuy(Prepare(row, 0)) /\ ~isSaleType(Prepare(row, 0))}

CurTx == Prepare(txn, txn.date - 1)
CurKey == KeyOf(CurTx)

ReadRow(row) ==
    /\ fn = "nps"
    /\ pc = "loop"
    /\ n < MaxTxns
    /\ row.date = n + 1
    /\ n' = n + 1
    /\ txn' = row
    /\ pre' = lotsByScheme
    /\ iters' = 0
    /\ UNCHANGED <<fn, result>>
    /\ UNCHANGED <<accVars, callVars, restVars>>

NPSFiltered ==
    \E row \in NPSFilteredRows :
        /\ fn = "nps"
        /\ pc = "loop"
        /\ n < MaxTxns
        /\ row.date = n + 1
        /\ n' = n + 1
        /\ UNCHANGED <<fn, pc, txn, keyOrder, result>>
        /\ UNCHANGED <<npsVars, accVars, callVars, restVars>>

NPSBuy ==
    \E row \in NPSBuyRows :
        LET tx == Prepare(row, n)
            key == KeyOf(tx)
        IN  /\ ReadRow(row)
            /\ keyOrder' = WithKey(keyOrder, key)
            /\ lotsByScheme' =
                 [lotsByScheme EXCEPT ![key] = Append(@, NewLot(tx))]
            /\ bal' = [bal EXCEPT ![key] = @ + tx.units]
            /\ net' = [net EXCEPT ![key] = @ + tx.units]
            /\ navOf' = [navOf EXCEPT ![tx.index] = tx.nav]
            /\ UNCHANGED <<pc, remaining>>

NPSSaleBegin ==
    \E row \in NPSSaleRows :
        LET tx == Prepare(row, n)
            key == KeyOf(tx)
        IN  /\ ReadRow(row)
            /\ keyOrder' = WithKey(keyOrder, key)
            /\ remaining' = Abs(tx.units)
            /\ pc' = "sale"
            /\ bal' = [bal EXCEPT ![key] = Max(0, @ - Abs(tx.units))]
            /\ net' = [net EXCEPT ![key] = @ - Abs(tx.units)]
            /\ UNCHANGED <<lotsByScheme, navOf>>

NPSOther ==
    \E row \in NPSOtherRows :
        LET tx == Prepare(row, n)
        IN  /\ ReadRow(row)
            /\ keyOrder' = WithKey(keyOrder, KeyOf(tx))
            /\ UNCHANGED <<pc, lotsByScheme, remaining, bal, net, navOf>>

NPSSaleIter ==
    /\ fn = "nps"
    /\ pc = "sale"
    /\ SaleLoopCondition(lotsByScheme[CurKey], remaining)
    /\ LET after == SaleIteration(lotsByScheme[CurKey], remaining)
       IN  /\ lotsByScheme' = [lotsByScheme EXCEPT ![CurKey] = after.lots]
           /\ remaining' = after.remaining
    /\ iters' = iters + 1
    /\ navOf' = [i \in DOMAIN navOf |->
                   IF \E k \in Keys : \E j \in 1..Len(lotsByScheme'[k]) :
                          lotsByScheme'[k][j].sequence = i
                   THEN navOf[i] ELSE 0]
    /\ UNCHANGED <<fn, pc, n, txn, keyOrder, result, pre, bal, net>>
    /\ UNCHANGED <<accVars, callVars, restVars>>

NPSSaleExit ==
    /\ fn = "nps"
    /\ pc = "sale"
    /\ ~SaleLoopCondition(lotsByScheme[CurKey], remaining)
    /\ pc' = "loop"
    /\ UNCHANGED <<fn, n, txn, keyOrder, result>>
    /\ UNCHANGED <<npsVars, accVars, callVars, restVars>>

NPSReturn ==
    /\ fn = "nps"
    /\ pc = "loop"
    /\ \E cmpMap \in CmpMaps :
           result' = NPSResult(keyOrder, lotsByScheme, cmpMap)
    /\ pc' = "done"
    /\ UNCHANGED <<fn, n, txn, keyOrder>>
    /\ UNCHANGED <<npsVars, accVars, callVars, restVars>>

---------------------------------------------------------------------------
(* calculatePPFHoldings and calculateEPFHoldings *)

NoBuckets == [invested |-> 0, interest |-> 0]
NoTotals == [invested |-> 0, interest |-> 0, total |-> 0]

AmountValues == {Null, Num(-1), Num(1), Num(2), Num(3), Num(10)}

PPFRowDomain ==
    [ account_name : {"", "P1"},
      txn_date : 1..MaxTxns,
      amount : AmountValues,
      transaction_type : PPFKinds ]

PPFRows == {row : row \in PPFRowDomain}

EPFRowDomain ==
    [ employee_share : {Null, Num(-1), Num(1), Num(2)},
      employer_share : {Null, Num(1)},
      pension_share : {Null, Num(1)},
      invest_type : EPFKinds ]

EPFRows == {row : row \in EPFRowDomain}

NoPPFRow == [ account_name |-> "", txn_date |-> NoDate, amount |-> Null,
              transaction_type |-> "" ]
NoEPFRow == [ employee_share |-> Null, employer_share |-> Null,
              pension_share |-> Null, invest_type |-> "" ]

(* Variant of the withdrawal with a slip in it, for the sensitivity runs *)
Withdraw_PrincipalFirst(b, amount) ==
    LET reduceDeposit == Min(amount, b.invested)
        rest == amount - reduceDeposit
        reduceInterest == Min(rest, b.interest)
    IN  [ invested |-> b.invested - reduceDeposit,
          interest |-> b.interest - reduceInterest ]

(* Lines 110-115, and again 144-149 *)
Withdraw(b, amount) ==
    LET reduceInterest == Min(amount, b.interest)
        rest == amount - reduceInterest
        reduceDeposit == Min(rest, b.invested)
    IN  [ invested |-> b.invested - reduceDeposit,
          interest |-> b.interest - reduceInterest ]

(* The body of accountTxns.forEach *)
PPFApply(b, row) ==
    LET amount == toNumber(row.amount)
        type == LowerType[row.transaction_type]
    IN  IF type = kwDeposit THEN [b EXCEPT !.invested = @ + amount]
        ELSE IF type = kwInterest THEN [b EXCEPT !.interest = @ + amount]
        ELSE IF type = kwWithdrawal THEN Withdraw(b, amount)
        ELSE b

GroupKey(row) == IF row.account_name = "" THEN "unknown" ELSE row.account_name

EPFAmount(row) ==
    toNumber(row.employee_share) + toNumber(row.employer_share)
        + toNumber(row.pension_share)

(* The body of transactions.forEach of calculateEPFHoldings *)
EPFApply(b, row) ==
    LET amount == EPFAmount(row)
        type == LowerType[row.invest_type]
    IN  IF amount <= 0 THEN b
        ELSE IF includes(type, kwWithdraw) THEN Withdraw(b, amount)
        ELSE IF includes(type, kwInterest) THEN [b EXCEPT !.interest = @ + amount]
        ELSE [b EXCEPT !.invested = @ + amount]

PPFTotals(b) ==
    [invested |-> b.invested, interest |-> b.interest,
     total |-> b.invested + b.interest]

EPFTotals(b) ==
    [invested |-> Max(b.invested, 0), interest |-> b.interest,
     total |-> Max(b.invested, 0) + b.interest]

(* calculatePPFHoldings, one row at a time: the groups of `grouped` in key *)
(* order, each group's rows in the order the sort of line 96 gives them.   *)
(* The invocations of this specification are those whose i-th input row is *)
(* dated day i and whose rows come account by account.                     *)

PPFRead(row) ==
    /\ fn = "ppf"
    /\ n < MaxTxns
    /\ row.txn_date = n + 1
    /\ n' = n + 1
    /\ txn' = row
    /\ UNCHANGED <<fn, result, tot>>
    /\ UNCHANGED <<npsVars, callVars, restVars>>

PPFFirst ==
    \E row \in PPFRows :
        /\ PPFRead(row)
        /\ pc = "between"
        /\ ~\E i \in 1..Len(keyOrder) : keyOrder[i] = GroupKey(row)
        /\ keyOrder' = Append(keyOrder, GroupKey(row))
        /\ preAcc' = NoBuckets
        /\ acc' = PPFApply(NoBuckets, row)
        /\ pc' = "group"

PPFNext ==
    \E row \in PPFRows :
        /\ PPFRead(row)
        /\ pc = "group"
        /\ GroupKey(row) = keyOrder[Len(keyOrder)]
        /\ preAcc' = acc
        /\ acc' = PPFApply(acc, row)
        /\ UNCHANGED <<pc, keyOrder>>

PPFEndGroup ==
    /\ fn = "ppf"
    /\ pc = "group"
    /\ tot' = [invested |-> tot.invested + acc.invested,
               interest |-> tot.interest + acc.interest]
    /\ pc' = "between"
    /\ UNCHANGED <<fn, n, txn, keyOrder, result, acc, preAcc>>
    /\ UNCHANGED <<npsVars, callVars, restVars>>

PPFReturn ==
    /\ fn = "ppf"
    /\ pc = "between"
    /\ result' = PPFTotals(tot)
    /\ pc' = "done"
    /\ UNCHANGED <<fn, n, txn, keyOrder>>
    /\ UNCHANGED <<npsVars, accVars, callVars, restVars>>

(* calculateEPFHoldings, one row at a time, in input order *)

EPFRow ==
    \E row \in EPFRows :
        /\ fn = "epf"
        /\ pc = "loop"
        /\ n < MaxTxns
        /\ n' = n + 1
        /\ txn' = row
        /\ preAcc' = tot
        /\ tot' = EPFApply(tot, row)
        /\ UNCHANGED <<fn, pc, keyOrder, result, acc>>
        /\ UNCHANGED <<npsVars, callVars, restVars>>

EPFReturn ==
    /\ fn = "epf"
    /\ pc = "loop"
    /\ result' = EPFTotals(tot)
    /\ pc' = "done"
    /\ UNCHANGED <<fn, n, txn, keyOrder>>
    /\ UNCHANGED <<npsVars, accVars, callVars, restVars>>

---------------------------------------------------------------------------

NPSIdle ==
    /\ lotsByScheme = EmptyLots
    /\ remaining = 0
    /\ pre = EmptyLots
    /\ iters = 0
    /\ bal = ZeroBal
    /\ net = ZeroBal
    /\ navOf = NoNavs

AccIdle ==
    /\ acc = NoBuckets
    /\ tot = NoBuckets
    /\ preAcc = NoBuckets

CallIdle ==
    /\ transactions = <<>>
    /\ preparedTransactions = <<>>

XirrIdle ==
    /\ flows = <<>>
    /\ cashflows = <<>>
    /\ low = 0
    /\ high = 0
    /\ mid = 0
    /\ iter = 0

PairIdle ==
    /\ invocations = <<>>
    /\ frames = <<>>

NoResponse == [status |-> 0, bodies |-> <<>>]

WebIdle ==
    /\ fetches = <<>>
    /\ req = <<>>
    /\ res = NoResponse
    /\ cache = <<>>
    /\ clock = 0

RestIdle == XirrIdle /\ PairIdle /\ WebIdle

Init ==
    /\ fn = "nps"
    /\ pc = "loop"
    /\ n = 0
    /\ txn = NoRow
    /\ keyOrder = <<>>
    /\ result = NoResult
    /\ NPSIdle
    /\ AccIdle
    /\ CallIdle
    /\ RestIdle

Next ==
    \/ NPSFiltered
    \/ NPSBuy
    \/ NPSSaleBegin
    \/ NPSOther
    \/ NPSSaleIter
    \/ NPSSaleExit
    \/ NPSReturn

Spec == Init /\ [][Next]_vars

InitAcc ==
    /\ fn \in {"ppf", "epf"}
    /\ pc = IF fn = "ppf" THEN "between" ELSE "loop"
    /\ n = 0
    /\ txn = IF fn = "ppf" THEN NoPPFRow ELSE NoEPFRow
    /\ keyOrder = <<>>
    /\ result = NoTotals
    /\ NPSIdle
    /\ AccIdle
    /\ CallIdle
    /\ RestIdle

NextAcc ==
    \/ PPFFirst
    \/ PPFNext
    \/ PPFEndGroup
    \/ PPFReturn
    \/ EPFRow
    \/ EPFReturn

SpecAcc == InitAcc /\ [][NextAcc]_vars

---------------------------------------------------------------------------
(* Whole invocations: the three functions applied to a list of rows in    *)
(* any order, with missing and repeated dates                              *)

SeqsUpTo(S, k) == UNION {[1..m -> S] : m \in 0..k}


(* Variant of the comparator with a slip in it, for the sensitivity runs *)
NPSCompare_IndexOnly(a, b) == a.index - b.index

(* The comparator of lines 193-198 *)
NPSCompare(a, b) ==
    LET aTime == getTime(a.effectiveDate)
        bTime == getTime(b.effectiveDate)
    IN  IF aTime # bTime THEN aTime - bTime ELSE a.index - b.index

(* Array.prototype.sort is stable: an element goes behind the elements    *)
(* the comparator does not put after it                                    *)
RECURSIVE NPSInsert(_, _)
NPSInsert(sorted, tx) ==
    IF sorted = <<>> THEN <<tx>>
    ELSE IF NPSCompare(Head(sorted), tx) <= 0
         THEN <<Head(sorted)>> \o NPSInsert(Tail(sorted), tx)
         ELSE <<tx>> \o sorted

RECURSIVE NPSSort(_)
NPSSort(list) ==
    IF list = <<>> THEN <<>>
    ELSE NPSInsert(NPSSort(Front(list)), Last(list))

(* Lines 170-198: map, filter, sort *)
NPSPrepared(rows) ==
    NPSSort(SelectSeq([i \in 1..Len(rows) |-> Prepare(rows[i], i - 1)], KeptTx))

(* The while loop of a sale, run to its end *)
RECURSIVE Consume(_, _)
Consume(lots, rem) ==
    IF SaleLoopCondition(lots, rem)
    THEN LET after == SaleIteration(lots, rem)
         IN  Consume(after.lots, after.remaining)
    ELSE lots

(* The body of preparedTransactions.forEach *)
NPSStep(st, tx) ==
    LET key == KeyOf(tx)
    IN  [ order |-> WithKey(st.order, key),
          lots |-> IF isBuy(tx)
                   THEN [st.lots EXCEPT ![key] = Append(@, NewLot(tx))]
                   ELSE IF isSaleType(tx)
                   THEN [st.lots EXCEPT ![key] = Consume(@, Abs(tx.units))]
                   ELSE st.lots ]

RECURSIVE NPSForEach(_, _)
NPSForEach(st, list) ==
    IF list = <<>> THEN st
    ELSE NPSForEach(NPSStep(st, Head(list)), Tail(list))

calculateNPSHoldings(rows, cmpMap) ==
    LET st == NPSForEach([order |-> <<>>, lots |-> EmptyLots], NPSPrepared(rows))
    IN  NPSResult(st.order, st.lots, cmpMap)

(* new Date(null) is the epoch *)
PPFTime(date) == IF date = NoDate THEN 0 ELSE date

(* The comparator of line 96 *)
PPFCompare(a, b) == PPFTime(a.txn_date) - PPFTime(b.txn_date)

RECURSIVE PPFInsert(_, _)
PPFInsert(sorted, row) ==
    IF sorted = <<>> THEN <<row>>
    ELSE IF PPFCompare(Head(sorted), row) <= 0
         THEN <<Head(sorted)>> \o PPFInsert(Tail(sorted), row)
         ELSE <<row>> \o sorted

RECURSIVE PPFSort(_)
PPFSort(list) ==
    IF list = <<>> THEN <<>>
    ELSE PPFInsert(PPFSort(Front(list)), Last(list))

(* Lines 85-90: the keys of `grouped` in insertion order, and one group *)
RECURSIVE GroupKeys(_)
GroupKeys(rows) ==
    IF rows = <<>> THEN <<>>
    ELSE WithKey(GroupKeys(Front(rows)), GroupKey(Last(rows)))

Group(rows, key) == SelectSeq(rows, LAMBDA row : GroupKey(row) = key)

RECURSIVE PPFForEach(_, _)
PPFForEach(b, list) ==
    IF list = <<>> THEN b
    ELSE PPFForEach(PPFApply(b, Head(list)), Tail(list))

(* Object.values(grouped).forEach: sort, accumulate, add to the totals *)
RECURSIVE PPFAccounts(_, _, _)
PPFAccounts(total, keys, rows) ==
    IF keys = <<>> THEN total
    ELSE LET b == PPFForEach(NoBuckets, PPFSort(Group(rows, Head(keys))))
         IN  PPFAccounts([invested |-> total.invested + b.invested,
                          interest |-> total.interest + b.interest],
                         Tail(keys), rows)

calculatePPFHoldings(rows) ==
    PPFTotals(PPFAccounts(NoBuckets, GroupKeys(rows), rows))

RECURSIVE EPFForEach(_, _)
EPFForEach(b, list) ==
    IF list = <<>> THEN b
    ELSE EPFForEach(EPFApply(b, Head(list)), Tail(list))

calculateEPFHoldings(rows) == EPFTotals(EPFForEach(NoBuckets, rows))

(* Inputs *)

CallDates == {NoDate, 1, 2}

NPSCallRows ==
    [ scheme_name : {"SchemeE", "SchemeG"},
      account_name : Accounts,
      transaction_type : {"Buy"},
      units : {Num(1)},
      nav : NavValues,
      date : CallDates ]
    \cup
    [ scheme_name : {"SchemeE", "SchemeG"},
      account_name : Accounts,
      transaction_type : {"sell"},
      units : {Num(1)},
      nav : {Num(1)},
      date : CallDates ]

PPFCallRows ==
    [ account_name : {"", "P1"},
      txn_date : CallDates,
      amount : {Num(1), Num(2)},
      transaction_type : {"Deposit", "withdrawal"} ]

EPFCallRows ==
    [ employee_share : {Num(1), Num(2)},
      employer_share : {Null},
      pension_share : {Null},
      invest_type : EPFKinds ]

CallStart(f, rowSet) ==
    /\ fn = f
    /\ pc = "call"
    /\ n = 0
    /\ txn = NoRow
    /\ keyOrder = <<>>
    /\ NPSIdle
    /\ AccIdle
    /\ transactions \in SeqsUpTo(rowSet, MaxRows)
    /\ preparedTransactions = <<>>
    /\ RestIdle

(* The array of the caller after a .sort(): Array.prototype.sort works in *)
(* place on the array it is called on and on no other                      *)
AfterSort(target, rows, sorted) ==
    IF target = "transactions" THEN sorted ELSE rows

(* The arrays the functions call .sort() on *)
NPSSortTarget == "mapped"       \* the array .map(...).filter(...) returns
PPFSortTarget_Input == "transactions"
PPFSortTarget == "grouped"      \* accountTxns, an array built by the reduce
BankSortTarget == "copy"        \* [...list]
FundSortTarget == "copy"        \* txns.slice()

CallReturns ==
    /\ pc = "call"
    /\ pc' = "done"
    /\ UNCHANGED <<fn, n, txn, keyOrder>>
    /\ UNCHANGED <<npsVars, accVars, restVars>>

NPSCall ==
    /\ fn = "nps"
    /\ CallReturns
    /\ preparedTransactions' = NPSPrepared(transactions)
    /\ transactions' =
          AfterSort(NPSSortTarget, transactions, NPSPrepared(transactions))
    /\ \E cmpMap \in CmpMaps :
           result' = calculateNPSHoldings(transactions, cmpMap)

PPFCall ==
    /\ fn = "ppf"
    /\ CallReturns
    /\ result' = calculatePPFHoldings(transactions)
    /\ transactions' =
          AfterSort(PPFSortTarget, transactions, PPFSort(transactions))
    /\ UNCHANGED preparedTransactions

EPFCall ==
    /\ fn = "epf"
    /\ CallReturns
    /\ result' = calculateEPFHoldings(transactions)
    /\ UNCHANGED <<transactions, preparedTransactions>>

InitSort == CallStart("nps", NPSCallRows) /\ result = NoResult
NextSort == NPSCall
SpecSort == InitSort /\ [][NextSort]_vars

InitOrder ==
    /\ \/ CallStart("ppf", PPFCallRows)
       \/ CallStart("epf", EPFCallRows)
    /\ result = NoTotals

NextOrder ==
    \/ PPFCall
    \/ EPFCall

SpecOrder == InitOrder /\ [][NextOrder]_vars

---------------------------------------------------------------------------
(* calculateBankHoldings.  A date is the numeral yyyymmdd, so that the    *)
(* order of dates is the order of the numerals.                            *)

NegativeInfinity == -1000000
NoBank == [savings |-> 0, demat |-> 0, total |-> 0]

BankDates == {NoDate, 20240105, 20240109, 20240201}

BankCallRows ==
    [ account_name : {"B1"},
      bank_name : {"HDFC"},
      account_type : BankKinds,
      txn_date : BankDates,
      amount : {Num(1), Num(2)} ]

(* The callback of transactions.filter, lines 21-24 *)
isBankType(row) ==
    LET type == LowerType[row.account_type]
    IN  type = kwSavings \/ type = kwDemat

(* date.getFullYear() * 100 + (date.getMonth() + 1) *)
monthNumeric(date) == date \div 100

(* Lines 30-39 *)
RECURSIVE latestMonthNumeric(_)
latestMonthNumeric(list) ==
    IF list = <<>> THEN NegativeInfinity
    ELSE LET before == latestMonthNumeric(Front(list))
             row == Last(list)
         IN  IF row.txn_date = NoDate THEN before
             ELSE Max(before, monthNumeric(row.txn_date))

BankKey(row) == <<row.account_name, row.bank_name, row.account_type>>

RECURSIVE BankKeys(_)
BankKeys(list) ==
    IF list = <<>> THEN <<>>
    ELSE WithKey(BankKeys(Front(list)), BankKey(Last(list)))

(* The comparator of line 58: latest date first *)
RECURSIVE BankInsert(_, _)
BankInsert(sorted, row) ==
    IF sorted = <<>> THEN <<row>>
    ELSE IF row.txn_date - Head(sorted).txn_date <= 0
         THEN <<Head(sorted)>> \o BankInsert(Tail(sorted), row)
         ELSE <<row>> \o sorted

RECURSIVE BankSort(_)
BankSort(list) ==
    IF list = <<>> THEN <<>>
    ELSE BankInsert(BankSort(Front(list)), Last(list))

(* Variant of the match with a slip in it: the group's own latest month *)
BankMatch_OwnMonth(list, latest) ==
    LET dated == SelectSeq(list, LAMBDA row : row.txn_date # NoDate)
        found == SelectSeq(BankSort(dated),
                           LAMBDA row : monthNumeric(row.txn_date) =
                                            latestMonthNumeric(list))
    IN  IF found = <<>> THEN <<>> ELSE <<Head(found)>>

(* Lines 56-64: the rows .find can return: none, or the first one found *)
BankMatch(list, latest) ==
    LET dated == SelectSeq(list, LAMBDA row : row.txn_date # NoDate)
        found == SelectSeq(BankSort(dated),
                           LAMBDA row : monthNumeric(row.txn_date) = latest)
    IN  IF found = <<>> THEN <<>> ELSE <<Head(found)>>

(* Variant of the group's share with a slip in it: an earlier month counts *)
BankAdd_AnyMonth(sums, list, latest) ==
    LET dated == SelectSeq(list, LAMBDA row : row.txn_date # NoDate)
    IN  IF dated = <<>> THEN sums
        ELSE LET type == LowerType[BankSort(dated)[1].account_type]
                 amount == toNumber(BankSort(dated)[1].amount)
             IN  IF type = kwSavings THEN [sums EXCEPT !.savings = @ + amount]
                 ELSE IF type = kwDemat THEN [sums EXCEPT !.demat = @ + amount]
                 ELSE sums

(* Lines 66-75: what one group adds to the sums *)
BankAdd(sums, list, latest) ==
    LET match == BankMatch(list, latest)
    IN  IF match = <<>> THEN sums
        ELSE LET type == LowerType[match[1].account_type]
                 amount == toNumber(match[1].amount)
             IN  IF type = kwSavings THEN [sums EXCEPT !.savings = @ + amount]
                 ELSE IF type = kwDemat THEN [sums EXCEPT !.demat = @ + amount]
                 ELSE sums

RECURSIVE BankGroups(_, _, _, _)
BankGroups(sums, keys, list, latest) ==
    IF keys = <<>> THEN sums
    ELSE BankGroups(
             BankAdd(sums,
                     SelectSeq(list, LAMBDA row : BankKey(row) = Head(keys)),
                     latest),
             Tail(keys), list, latest)

calculateBankHoldings(rows) ==
    LET filtered == SelectSeq(rows, isBankType)
        latest == latestMonthNumeric(filtered)
        sums == BankGroups([savings |-> 0, demat |-> 0],
                           BankKeys(filtered), filtered, latest)
    IN  IF rows = <<>> \/ filtered = <<>> \/ latest < 0 THEN NoBank
        ELSE [ savings |-> sums.savings, demat |-> sums.demat,
               total |-> sums.savings + sums.demat ]

BankCall ==
    /\ fn = "bank"
    /\ CallReturns
    /\ result' = calculateBankHoldings(transactions)
    /\ transactions' =
          AfterSort(BankSortTarget, transactions, BankSort(transactions))
    /\ UNCHANGED preparedTransactions

InitBank == CallStart("bank", BankCallRows) /\ result = NoBank
NextBank == BankCall
SpecBank == InitBank /\ [][NextBank]_vars

---------------------------------------------------------------------------
(* getAnalysisSummary (analysis service): the mutual-fund pass, and the   *)
(* lot queue of the equity pass of the same function                       *)

FundCallRows ==
    [ fund_short_name : {"F1"},
      transaction_type : FundKinds,
      quantity : {Num(1), Num(2)},
      buy_price : {Num(1), Num(2)},
      buy_date : {1, 2} ]

(* new Date(txn.buy_date || 0) *)
FundTime(row) == IF row.buy_date = NoDate THEN 0 ELSE row.buy_date

RECURSIVE FundInsert(_, _)
FundInsert(sorted, row) ==
    IF sorted = <<>> THEN <<row>>
    ELSE IF FundTime(Head(sorted)) - FundTime(row) <= 0
         THEN <<Head(sorted)>> \o FundInsert(Tail(sorted), row)
         ELSE <<row>> \o sorted

RECURSIVE FundSort(_)
FundSort(list) ==
    IF list = <<>> THEN <<>>
    ELSE FundInsert(FundSort(Front(list)), Last(list))

RECURSIVE FundKeys(_)
FundKeys(list) ==
    IF list = <<>> THEN <<>>
    ELSE WithKey(FundKeys(Front(list)), Last(list).fund_short_name)

isRedeem(row) ==
    row.transaction_type # "" /\ includes(LowerType[row.transaction_type], kwRedeem)

(* The forEach body of the mutual-fund pass: running net units and amount *)
FundStep(st, row) ==
    LET quantity == toNumber(row.quantity)
        price == toNumber(row.buy_price)
    IN  IF isRedeem(row)
        THEN [ activeUnits |-> st.activeUnits - quantity,
               activeInvested |-> st.activeInvested - quantity * price ]
        ELSE [ activeUnits |-> st.activeUnits + quantity,
               activeInvested |-> st.activeInvested + quantity * price ]

RECURSIVE FundForEach(_, _)
FundForEach(st, list) ==
    IF list = <<>> THEN st
    ELSE FundForEach(FundStep(st, Head(list)), Tail(list))

RECURSIVE mfActive(_, _)
mfActive(keys, rows) ==
    IF keys = <<>> THEN <<>>
    ELSE LET txns == SelectSeq(rows, LAMBDA row : row.fund_short_name = Head(keys))
             st == FundForEach([activeUnits |-> 0, activeInvested |-> 0],
                               FundSort(txns))
             rest == mfActive(Tail(keys), rows)
         IN  IF st.activeUnits > 0
             THEN <<[ fund_short_name |-> Head(keys),
                      quantity |-> st.activeUnits,
                      invested_amount |-> st.activeInvested ]>> \o rest
             ELSE rest

(* The lot queue of the equity pass: push on a buy, consume from the front *)
LedgerStep(fifo, row) ==
    LET quantity == toNumber(row.quantity)
        price == toNumber(row.buy_price)
    IN  IF isRedeem(row) THEN Consume(fifo, Abs(quantity))
        ELSE Append(fifo, [units |-> quantity, price |-> price])

RECURSIVE LedgerForEach(_, _)
LedgerForEach(fifo, list) ==
    IF list = <<>> THEN fifo
    ELSE LedgerForEach(LedgerStep(fifo, Head(list)), Tail(list))

RECURSIVE ledgerActive(_, _)
ledgerActive(keys, rows) ==
    IF keys = <<>> THEN <<>>
    ELSE LET txns == SelectSeq(rows, LAMBDA row : row.fund_short_name = Head(keys))
             fifo == LedgerForEach(<<>>, FundSort(txns))
             rest == ledgerActive(Tail(keys), rows)
         IN  IF fifo # <<>>
             THEN <<[ fund_short_name |-> Head(keys),
                      quantity |-> Units(fifo),
                      invested_amount |->
                          SumSeq([k \in 1..Len(fifo) |->
                                      fifo[k].units * fifo[k].price]) ]>> \o rest
             ELSE rest

FundCall ==
    /\ fn = "mf"
    /\ CallReturns
    /\ result' = mfActive(FundKeys(transactions), transactions)
    /\ transactions' =
          AfterSort(FundSortTarget, transactions, FundSort(transactions))
    /\ UNCHANGED preparedTransactions

InitFund == CallStart("mf", FundCallRows) /\ result = <<>>
NextFund == FundCall
SpecFund == InitFund /\ [][NextFund]_vars

---------------------------------------------------------------------------
(* The aggregators and the mutual-fund pass, each on an input of its own *)

InitInput ==
    \/ InitSort
    \/ InitOrder
    \/ InitBank
    \/ InitFund

NextInput ==
    \/ NPSCall
    \/ PPFCall
    \/ EPFCall
    \/ BankCall
    \/ FundCall

SpecInput == InitInput /\ [][NextInput]_vars

---------------------------------------------------------------------------
(* Two invocations of calculateNPSHoldings / calculateEPFHoldings whose    *)
(* forEach callbacks run in any interleaving.  An invocation creates its   *)
(* local variables at entry: lotsByScheme = new Map() on line 168,         *)
(* totalInvested = 0 and totalInterest = 0 on lines 134-135.               *)

Calls == {1, 2}

PairNPSRows ==
    [ scheme_name : {"SchemeE"},
      account_name : Accounts,
      transaction_type : {"Buy"},
      units : {Num(1), Num(2)},
      nav : {Num(1)},
      date : {NoDate} ]
    \cup
    [ scheme_name : {"SchemeE"},
      account_name : Accounts,
      transaction_type : {"sell"},
      units : {Num(1)},
      nav : {Num(1)},
      date : {NoDate} ]

PairEPFRows ==
    [ employee_share : {Num(1)},
      employer_share : {Null},
      pension_share : {Null},
      invest_type : EPFKinds ]

NewFrame == [order |-> <<>>, lots |-> EmptyLots, b |-> NoBuckets]

(* Variant with a slip in it: the local variables are one shared object *)
frameOf_Shared(c) == 1

(* The local variables an invocation works on are the ones it created *)
frameOf(c) == c

NewInvocation(f, rows) ==
    [ fn |-> f,
      rows |-> rows,
      list |-> IF f = "nps" THEN NPSPrepared(rows) ELSE rows,
      pos |-> 0,
      done |-> FALSE,
      result |-> IF f = "nps" THEN NoResult ELSE NoTotals ]

PairInputs ==
    {NewInvocation("nps", rows) : rows \in SeqsUpTo(PairNPSRows, MaxPairRows)}
    \cup
    {NewInvocation("epf", rows) : rows \in SeqsUpTo(PairEPFRows, MaxPairRows)}

(* One run of the forEach callback of invocation c *)
PairStep(c) ==
    LET inv == invocations[c]
        f == frameOf(c)
        row == inv.list[inv.pos + 1]
    IN  /\ ~inv.done
        /\ inv.pos < Len(inv.list)
        /\ frames' =
             IF inv.fn = "nps"
             THEN LET st == NPSStep([order |-> frames[f].order,
                                     lots |-> frames[f].lots], row)
                  IN  [frames EXCEPT ![f].order = st.order, ![f].lots = st.lots]
             ELSE [frames EXCEPT ![f].b = EPFApply(@, row)]
        /\ invocations' = [invocations EXCEPT ![c].pos = @ + 1]

(* The return of invocation c *)
PairReturn(c) ==
    LET inv == invocations[c]
        f == frameOf(c)
    IN  /\ ~inv.done
        /\ inv.pos = Len(inv.list)
        /\ \E cmpMap \in CmpMaps :
              invocations' =
                 [invocations EXCEPT
                    ![c].done = TRUE,
                    ![c].result =
                        IF inv.fn = "nps"
                        THEN NPSResult(frames[f].order, frames[f].lots, cmpMap)
                        ELSE EPFTotals(frames[f].b)]
        /\ UNCHANGED frames

PairFrame ==
    /\ UNCHANGED <<fn, pc, n, txn, keyOrder, result>>
    /\ UNCHANGED <<npsVars, accVars, callVars, xirrVars, webVars>>

PairRun == \E c \in Calls : PairStep(c) /\ PairFrame
PairEnd == \E c \in Calls : PairReturn(c) /\ PairFrame

InitPair ==
    /\ fn = "pair"
    /\ pc = "call"
    /\ n = 0
    /\ txn = NoRow
    /\ keyOrder = <<>>
    /\ result = NoResult
    /\ NPSIdle
    /\ AccIdle
    /\ CallIdle
    /\ XirrIdle
    /\ WebIdle
    /\ invocations \in [Calls -> PairInputs]
    /\ frames = [c \in Calls |-> NewFrame]

NextPair ==
    \/ PairRun
    \/ PairEnd

SpecPair == InitPair /\ [][NextPair]_vars

---------------------------------------------------------------------------
(* calculateXirr (analysis service)                                       *)
(*                                                                         *)
(* Rates are integers in units of 1/RateScale and the midpoint is rounded  *)
(* down to that grid, which stands for the rounding of the floating-point  *)
(* midpoint.  Amounts are integers in units of AmountUnit.  Dates are day  *)
(* numbers, a whole number of years apart, so that Math.pow has an integer *)
(* exponent and the net present value is an exact fraction num / den.      *)

RateScale == 10000
AmountUnit == 1000
LowStart == -9999           \* -0.9999
HighStart == 1000000        \* 100
MaxIterations == 100
DaysPerYear == 365          \* MS_PER_YEAR, in days
ToleranceInverse == 1000000000   \* 1 / (1e-6 / AmountUnit)
Percent == 100

InvalidDate == -1

(* Number(cf.amount): null is 0, undefined and text that is no number NaN *)
(* whole s read as a number: the empty text is 0, a decimal literal its   *)
(* value, any other text NaN                                               *)
StringToNumber(s) ==
    LET signed == IF s = <<>> THEN FALSE ELSE Head(s) \in {"-", "+"}
        body == IF signed THEN Tail(s) ELSE s
        i == DigitRun(body)
        rest == SubSeq(body, i + 1, Len(body))
        point == IF rest = <<>> THEN FALSE ELSE Head(rest) = "."
        j == IF point THEN DigitRun(Tail(rest)) ELSE 0
        read == (IF signed THEN 1 ELSE 0) + i + (IF point THEN 1 ELSE 0) + j
    IN  IF s = <<>> THEN Num(0)
        ELSE IF read = Len(s) THEN parseFloat(s) ELSE NaN

Number(value) ==
    CASE value.t = "null" -> Num(0)
      [] value.t = "undefined" -> NaN
      [] value.t = "bool" -> Num(TextScale)
      [] value.t = "str" -> StringToNumber(value.s)
      [] OTHER -> value


FlowAmounts == {NaN, Num(0), Num(-100), Num(100), Num(110)}
FlowDates == {InvalidDate, 0, DaysPerYear}

FlowDomain == [amount : FlowAmounts, date : FlowDates]
Flows == {cf : cf \in FlowDomain}

(* The .map and .filter callbacks of lines 21-23 *)
MapFlow(cf) == [amount |-> Number(cf.amount), date |-> cf.date]

KeepFlow(cf) ==
    /\ isFinite(cf.amount)
    /\ cf.amount.v # 0
    /\ cf.date # InvalidDate

RECURSIVE XirrInsert(_, _)
XirrInsert(sorted, cf) ==
    IF sorted = <<>> THEN <<cf>>
    ELSE IF Head(sorted).date - cf.date <= 0
         THEN <<Head(sorted)>> \o XirrInsert(Tail(sorted), cf)
         ELSE <<cf>> \o sorted

RECURSIVE XirrSort(_)
XirrSort(list) ==
    IF list = <<>> THEN <<>>
    ELSE XirrInsert(XirrSort(Front(list)), Last(list))

Cashflows(input) ==
    XirrSort(SelectSeq([k \in 1..Len(input) |-> MapFlow(input[k])], KeepFlow))


(* (cf.date - baseDate) / MS_PER_YEAR *)
Years(cf, list) == (cf.date - list[1].date) \div DaysPerYear

(* npv(rate) as the fraction num / den, den = (1 + rate)^(latest year) > 0 *)
npv(list, rate) ==
    LET last == Years(list[Len(list)], list)
        term(cf) == cf.amount.v * Pow(RateScale, Years(cf, list))
                        * Pow(RateScale + rate, last - Years(cf, list))
    IN  [ num |-> SumSeq([k \in 1..Len(list) |-> term(list[k])]),
          den |-> Pow(RateScale + rate, last) ]

(* Math.abs(value) < 1e-6 *)
Converged(value) ==
    Abs(value.num) < (value.den + ToleranceInverse - 1) \div ToleranceInverse

(* Variant of the test with a slip in it: the bracket moves the wrong way *)
Positive_Reversed(value) == value.num < 0

(* value > 0 *)
Positive(value) == value.num > 0

(* Variant of the midpoint with a slip in it: the sum is not halved *)
Midpoint_Sum(a, b) == a + b

(* (low + high) / 2, rounded down to the grid of the rates *)
Midpoint(a, b) == (a + b) \div 2

XirrFrame ==
    /\ UNCHANGED <<n, txn, keyOrder>>
    /\ UNCHANGED <<npsVars, accVars, callVars, pairVars, webVars>>

(* Lines 20-38: the guards, the cashflows and the bracket *)
XirrEnter ==
    /\ fn = "xirr"
    /\ pc = "call"
    /\ cashflows' = IF Len(flows) < 2 THEN <<>> ELSE Cashflows(flows)
    /\ IF Len(flows) < 2 \/ Cashflows(flows) = <<>>
       THEN /\ result' = 0
            /\ pc' = "done"
            /\ UNCHANGED <<low, high, mid>>
       ELSE /\ low' = LowStart
            /\ high' = HighStart
            /\ mid' = 0
            /\ pc' = "loop"
            /\ UNCHANGED result
    /\ UNCHANGED <<fn, flows, iter>>
    /\ XirrFrame

(* Variant of the pass with a slip in it: the counter is not advanced *)
XirrIterate_NoCount ==
    /\ fn = "xirr"
    /\ pc = "loop"
    /\ iter < MaxIterations
    /\ mid' = Midpoint(low, high)
    /\ LET value == npv(cashflows, mid')
       IN  /\ ~Converged(value)
           /\ IF Positive(value)
              THEN low' = mid' /\ UNCHANGED high
              ELSE high' = mid' /\ UNCHANGED low
    /\ UNCHANGED <<fn, pc, result, flows, cashflows, iter>>
    /\ XirrFrame

(* One pass of the body of the for loop that does not return *)
XirrIterate ==
    /\ fn = "xirr"
    /\ pc = "loop"
    /\ iter < MaxIterations
    /\ mid' = Midpoint(low, high)
    /\ LET value == npv(cashflows, mid')
       IN  /\ ~Converged(value)
           /\ IF Positive(value)
              THEN low' = mid' /\ UNCHANGED high
              ELSE high' = mid' /\ UNCHANGED low
    /\ iter' = iter + 1
    /\ UNCHANGED <<fn, pc, result, flows, cashflows>>
    /\ XirrFrame

(* The pass that returns from inside the loop: line 43 *)
XirrConverge ==
    /\ fn = "xirr"
    /\ pc = "loop"
    /\ iter < MaxIterations
    /\ mid' = Midpoint(low, high)
    /\ Converged(npv(cashflows, mid'))
    /\ result' = mid' * Percent
    /\ pc' = "done"
    /\ UNCHANGED <<fn, flows, cashflows, low, high, iter>>
    /\ XirrFrame

(* The return after the loop: line 53 *)
XirrExhaust ==
    /\ fn = "xirr"
    /\ pc = "loop"
    /\ iter >= MaxIterations
    /\ result' = mid * Percent
    /\ pc' = "done"
    /\ UNCHANGED <<fn, flows, cashflows, low, high, mid, iter>>
    /\ XirrFrame

InitXirr ==
    /\ fn = "xirr"
    /\ pc = "call"
    /\ n = 0
    /\ txn = NoRow
    /\ keyOrder = <<>>
    /\ result = 0
    /\ NPSIdle
    /\ AccIdle
    /\ CallIdle
    /\ PairIdle
    /\ WebIdle
    /\ flows \in SeqsUpTo(Flows, MaxFlows)
    /\ cashflows = <<>>
    /\ low = 0
    /\ high = 0
    /\ mid = 0
    /\ iter = 0

NextXirr ==
    \/ XirrEnter
    \/ XirrIterate
    \/ XirrConverge
    \/ XirrExhaust

SpecXirr == InitXirr /\ [][NextXirr]_vars

(* The for loop is sequential code: a pass that can run does run *)
FairXirr == SpecXirr /\ WF_vars(NextXirr)

---------------------------------------------------------------------------
(* Rows whose numeric fields are no proper numbers: toNumber on its own,   *)
(* the four aggregators of the aggregation service, and the mutual-fund    *)
(* pass of getAnalysisSummary with the closed positions it reports         *)

TextChars == {"1", "-", ".", "a"}
Texts == UNION { [1..k -> TextChars] : k \in 0..MaxText }

RawValues ==
    {Null, Undefined, NaN, Infinity, True, Num(-1), Num(0), Num(1)}
        \cup { Str(s) : s \in Texts }

(* value || 0 *)
Truthy(value) ==
    CASE value.t = "num" -> value.v # 0
      [] value.t = "inf" -> TRUE
      [] value.t = "bool" -> TRUE
      [] value.t = "str" -> value.s # <<>>
      [] OTHER -> FALSE

OrZero(value) == IF Truthy(value) THEN value ELSE Num(0)

(* units * value and price - value, value converted as the operators * and *)
(* - convert an operand (Number(value)); a count of quanta times a count   *)
(* stays a number of the model as in the other products                    *)
Times(units, value) ==
    LET operand == Number(value)
    IN  CASE operand.t = "num" -> Num(units * operand.v)
          [] operand.t = "inf" -> IF units = 0 THEN NaN ELSE Infinity
          [] OTHER -> NaN

Minus(price, value) ==
    LET operand == Number(value)
    IN  CASE operand.t = "num" -> Num(price - operand.v)
          [] operand.t = "inf" -> Infinity
          [] OTHER -> NaN

(* redemptions.forEach of one fund: one closed position per redemption *)
Redemption(row) ==
    LET units == toNumber(row.quantity)
        price == toNumber(row.buy_price)
    IN  [ fund_short_name |-> row.fund_short_name,
          quantity |-> units,
          buy_price |-> OrZero(row.buy_price),
          sell_price |-> price,
          invested_amount |-> Times(units, OrZero(row.buy_price)),
          sale_amount |-> units * price,
          realized_gain |-> Times(units, Minus(price, OrZero(row.buy_price))) ]

RECURSIVE mfClosed(_, _)
mfClosed(keys, rows) ==
    IF keys = <<>> THEN <<>>
    ELSE LET txns == SelectSeq(rows, LAMBDA row : row.fund_short_name = Head(keys))
             redemptions == SelectSeq(FundSort(txns), isRedeem)
         IN  [k \in 1..Len(redemptions) |-> Redemption(redemptions[k])]
                 \o mfClosed(Tail(keys), rows)

getAnalysisSummary(rows) ==
    [ mfActive |-> mfActive(FundKeys(rows), rows),
      mfClosed |-> mfClosed(FundKeys(rows), rows) ]

(* Inputs *)

ValueRows == [ value : RawValues ]

OddNPSRows ==
    [ scheme_name : {"SchemeE"},
      account_name : {"A1"},
      transaction_type : {"Buy", "sell"},
      units : {Num(1), Null, Str(<<"a">>)},
      nav : {Num(1), Infinity},
      date : {1} ]

OddPPFRows ==
    [ account_name : {"P1"},
      txn_date : {1},
      amount : {Num(1), Undefined, NaN, Str(<<".", "-", "1">>)},
      transaction_type : {"Deposit", "withdrawal"} ]

OddEPFRows ==
    [ employee_share : {Num(1), Str(<<"-">>), Infinity},
      employer_share : {Null, Num(1)},
      pension_share : {Undefined},
      invest_type : {"Contribution", "Withdrawal"} ]

OddBankRows ==
    [ account_name : {"B1"},
      bank_name : {"HDFC"},
      account_type : {"Savings", "demat"},
      txn_date : {20240105},
      amount : {Num(1), Null, NaN, Str(<<"a", "1">>)} ]

OddFundRows ==
    [ fund_short_name : {"F1"},
      transaction_type : FundKinds,
      quantity : {Num(1), Null},
      buy_price : {Num(1), Undefined, Infinity, Str(<<"a">>)},
      buy_date : {1} ]

ToNumberCall ==
    /\ fn = "toNumber"
    /\ CallReturns
    /\ result' = toNumber(transactions[1].value)
    /\ UNCHANGED <<transactions, preparedTransactions>>

SummaryCall ==
    /\ fn = "summary"
    /\ CallReturns
    /\ result' = getAnalysisSummary(transactions)
    /\ transactions' =
          AfterSort(FundSortTarget, transactions, FundSort(transactions))
    /\ UNCHANGED preparedTransactions

InitCoerce ==
    /\ \/ CallStart("nps", OddNPSRows)
       \/ CallStart("ppf", OddPPFRows)
       \/ CallStart("epf", OddEPFRows)
       \/ CallStart("bank", OddBankRows)
       \/ CallStart("summary", OddFundRows)
       \/ CallStart("toNumber", ValueRows) /\ Len(transactions) = 1
    /\ result = 0

NextCoerce ==
    \/ ToNumberCall
    \/ NPSCall
    \/ PPFCall
    \/ EPFCall
    \/ BankCall
    \/ SummaryCall

SpecCoerce == InitCoerce /\ [][NextCoerce]_vars

---------------------------------------------------------------------------
(* getAnalysisDashboard and getAnalysisFreeStocks (analysis service): the  *)
(* open lots of each stock, their totals and the profit percentages        *)

StockAccounts == {"A1", "Free"}
AccountChars == [a \in StockAccounts |->
                    IF a = "Free" THEN <<"F","r","e","e">> ELSE <<"A","1">>]
kwFree == <<"f","r","e","e">>

StockRows ==
    [ stock_name : {"S1"},
      account_name : StockAccounts,
      quantity : {Num(-1), Num(2)},
      buy_price : {Num(0), Num(2)},
      buy_date : {1},
      sell_date : {NoDate, 2} ]

StockCmpMaps == { [s \in {"S1"} |-> 3], <<>> }

(* new Date(a.buy_date || a.sell_date || 0) *)
StockTime(row) ==
    IF row.buy_date # NoDate THEN row.buy_date
    ELSE IF row.sell_date # NoDate THEN row.sell_date ELSE 0

RECURSIVE StockInsert(_, _)
StockInsert(sorted, row) ==
    IF sorted = <<>> THEN <<row>>
    ELSE IF StockTime(Head(sorted)) - StockTime(row) <= 0
         THEN <<Head(sorted)>> \o StockInsert(Tail(sorted), row)
         ELSE <<row>> \o sorted

RECURSIVE StockSort(_)
StockSort(list) ==
    IF list = <<>> THEN <<>>
    ELSE StockInsert(StockSort(Front(list)), Last(list))

(* The forEach body: a row without sell_date is a lot, another a sale *)
StockStep(fifo, row) ==
    LET quantity == toNumber(row.quantity)
        price == toNumber(row.buy_price)
    IN  IF row.sell_date = NoDate
        THEN Append(fifo, [units |-> quantity, price |-> price])
        ELSE Consume(fifo, Abs(quantity))

RECURSIVE StockForEach(_, _)
StockForEach(fifo, list) ==
    IF list = <<>> THEN fifo
    ELSE StockForEach(StockStep(fifo, Head(list)), Tail(list))

(* fifo.forEach: invested += lot.units * lot.price, marketValue likewise *)
StockTotals(fifo, cmp) ==
    [ invested |-> SumSeq([k \in 1..Len(fifo) |-> fifo[k].units * fifo[k].price]),
      marketValue |-> SumSeq([k \in 1..Len(fifo) |-> fifo[k].units * cmp]) ]

(* a / b of two numbers: a fraction, or what the division by 0 gives *)
Divide(a, b) ==
    IF b = 0 THEN IF a = 0 THEN NaN ELSE Infinity
    ELSE [ t |-> "frac", v |-> 0,
           num |-> IF b < 0 THEN -a ELSE a,
           den |-> Abs(b) ]

ScaleBy(q, k) == IF q.t = "frac" THEN [q EXCEPT !.num = @ * k] ELSE q

(* Variant of the percentage with a slip in it: the division is unguarded *)
ProfitPercent_NoGuard(invested, marketValue) ==
    ScaleBy(Divide(marketValue - invested, invested), Percent)

(* invested > 0 ? ((marketValue - invested) / invested) * 100 : 0 *)
ProfitPercent(invested, marketValue) ==
    IF invested > 0
    THEN ScaleBy(Divide(marketValue - invested, invested), Percent)
    ELSE Num(0)

RECURSIVE StockKeys(_)
StockKeys(list) ==
    IF list = <<>> THEN <<>>
    ELSE WithKey(StockKeys(Front(list)), Last(list).stock_name)

RECURSIVE AccountKeys(_)
AccountKeys(list) ==
    IF list = <<>> THEN <<>>
    ELSE WithKey(AccountKeys(Front(list)), Last(list).account_name)

RECURSIVE PairKeys(_)
PairKeys(list) ==
    IF list = <<>> THEN <<>>
    ELSE WithKey(PairKeys(Front(list)),
                 <<Last(list).stock_name, Last(list).account_name>>)

(* processLots of one account: the totals over the stocks of `keys` *)
RECURSIVE processLots(_, _, _)
processLots(keys, rows, cmpMap) ==
    IF keys = <<>> THEN [invested |-> 0, marketValue |-> 0]
    ELSE LET entries == SelectSeq(rows, LAMBDA row : row.stock_name = Head(keys))
             fifo == StockForEach(<<>>, StockSort(entries))
             own == StockTotals(fifo, cmpGet(cmpMap, Head(keys)))
             rest == processLots(Tail(keys), rows, cmpMap)
         IN  [ invested |-> own.invested + rest.invested,
               marketValue |-> own.marketValue + rest.marketValue ]

RECURSIVE accountWise(_, _, _)
accountWise(keys, rows, cmpMap) ==
    IF keys = <<>> THEN <<>>
    ELSE LET txns == SelectSeq(rows, LAMBDA row : row.account_name = Head(keys))
             sums == processLots(StockKeys(txns), txns, cmpMap)
             rest == accountWise(Tail(keys), rows, cmpMap)
         IN  IF sums.invested > 0 \/ sums.marketValue > 0
             THEN <<[ accountName |-> Head(keys),
                      invested |-> sums.invested,
                      marketValue |-> sums.marketValue,
                      profit |-> sums.marketValue - sums.invested,
                      profitPercent |->
                          ProfitPercent(sums.invested, sums.marketValue) ]>>
                      \o rest
             ELSE rest

RECURSIVE stocks(_, _, _)
stocks(keys, rows, cmpMap) ==
    IF keys = <<>> THEN <<>>
    ELSE LET txns == SelectSeq(rows, LAMBDA row : row.stock_name = Head(keys))
             fifo == StockForEach(<<>>, StockSort(txns))
             sums == StockTotals(fifo, cmpGet(cmpMap, Head(keys)))
             rest == stocks(Tail(keys), rows, cmpMap)
         IN  IF Len(fifo) > 0
             THEN <<[ name |-> Head(keys),
                      invested |-> sums.invested,
                      marketValue |-> sums.marketValue,
                      profit |-> sums.marketValue - sums.invested,
                      percent |->
                          ProfitPercent(sums.invested, sums.marketValue) ]>>
                      \o rest
             ELSE rest

getAnalysisDashboard(rows, cmpMap) ==
    [ accountWise |-> accountWise(AccountKeys(rows), rows, cmpMap),
      stocks |-> stocks(StockKeys(rows), rows, cmpMap) ]

isFree(accountName) ==
    accountName # "" /\ includes(toLowerCase(AccountChars[accountName]), kwFree)

(* stockData.forEach of getAnalysisFreeStocks, the entries with their key *)
RECURSIVE stockEntries(_, _, _)
stockEntries(keys, rows, cmpMap) ==
    IF keys = <<>> THEN <<>>
    ELSE LET txns == SelectSeq(rows, LAMBDA row :
                         <<row.stock_name, row.account_name>> = Head(keys))
             fifo == StockForEach(<<>>, FundSort(txns))
             sums == StockTotals(fifo, cmpGet(cmpMap, Head(keys)[1]))
             rest == stockEntries(Tail(keys), rows, cmpMap)
         IN  IF Len(fifo) > 0
             THEN <<[ stockName |-> Head(keys)[1],
                      accountName |-> Head(keys)[2],
                      invested |-> sums.invested,
                      marketValue |-> sums.marketValue,
                      profit |-> sums.marketValue - sums.invested,
                      profitPercent |->
                          ProfitPercent(sums.invested, sums.marketValue),
                      quantity |-> Units(fifo) ]>> \o rest
             ELSE rest

getAnalysisFreeStocks(rows, cmpMap) ==
    LET all == stockEntries(PairKeys(rows), rows, cmpMap)
    IN  [ freeStocks |-> SelectSeq(all, LAMBDA s : isFree(s.accountName)),
          regularStocks |-> SelectSeq(all, LAMBDA s : ~isFree(s.accountName)) ]

DashboardCall ==
    /\ fn = "dashboard"
    /\ CallReturns
    /\ \E cmpMap \in StockCmpMaps :
           result' = getAnalysisDashboard(transactions, cmpMap)
    /\ UNCHANGED <<transactions, preparedTransactions>>

FreeStocksCall ==
    /\ fn = "freeStocks"
    /\ CallReturns
    /\ \E cmpMap \in StockCmpMaps :
           result' = getAnalysisFreeStocks(transactions, cmpMap)
    /\ UNCHANGED <<transactions, preparedTransactions>>

InitStock ==
    /\ \/ CallStart("dashboard", StockRows)
       \/ CallStart("freeStocks", StockRows)
    /\ result = 0

NextStock ==
    \/ DashboardCall
    \/ FreeStocksCall

SpecStock == InitStock /\ [][NextStock]_vars

---------------------------------------------------------------------------
(* An analysis request: the route handler awaits the service, the service  *)
(* awaits Promise.all of its fetchAllRows calls, and an error goes through *)
(* next(error) to errorHandler                                             *)

Routes == {"GET /dashboard", "GET /summary", "GET /free-stocks"}

(* The fetchAllRows calls in the Promise.all of each service function *)
FetchCount ==
    [r \in Routes |-> IF r = "GET /summary" THEN 4 ELSE 2]

NoStatus == 0                   \* an error without statusCode
NoError == [message |-> "none", statusCode |-> NoStatus]
Errors == [ message : {"", "fetch failed"}, statusCode : {NoStatus, 503} ]
Environments == {"development", "production"}

Pending == [state |-> "pending", error |-> NoError]
Resolved == [state |-> "fulfilled", error |-> NoError]
Rejected(e) == [state |-> "rejected", error |-> e]

NewRequest(env) ==
    [ env |-> env, all |-> Pending, thrown |-> NoError, forwarded |-> NoError ]

(* Promise.all: rejected with the reason of the first input that rejects,  *)
(* fulfilled once every input is                                            *)
PromiseAll(all, inputs) ==
    IF all.state # "pending" THEN all
    ELSE IF \A i \in 1..Len(inputs) : inputs[i].state = "fulfilled" THEN Resolved
    ELSE all

FetchResolve(i) ==
    /\ fn \in Routes
    /\ fetches[i].state = "pending"
    /\ fetches' = [fetches EXCEPT ![i] = Resolved]
    /\ req' = [req EXCEPT !.all = PromiseAll(@, fetches')]
    /\ UNCHANGED <<pc, res>>

FetchReject(i, e) ==
    /\ fn \in Routes
    /\ fetches[i].state = "pending"
    /\ fetches' = [fetches EXCEPT ![i] = Rejected(e)]
    /\ req' = [req EXCEPT !.all = IF @.state = "pending" THEN Rejected(e) ELSE @]
    /\ UNCHANGED <<pc, res>>

(* The value the service function returns, from the rows of its fetches *)
Data(inputs) ==
    [ kind |-> "data",
      tables |-> {i \in 1..Len(inputs) : inputs[i].state = "fulfilled"} ]

(* Variant of the catch with a slip in it: a new error is thrown *)
Rethrow_New(error) == [message |-> "Analysis failed", statusCode |-> NoStatus]

(* catch (error) { console.error(...); throw error; } *)
Rethrow(error) == error

(* await Promise.all(...) resumes the service function: it returns its     *)
(* data, or its catch block rethrows                                       *)
ServiceReturn ==
    /\ fn \in Routes
    /\ pc = "await"
    /\ req.all.state = "fulfilled"
    /\ pc' = "returned"
    /\ UNCHANGED <<fetches, req, res>>

ServiceThrow ==
    /\ fn \in Routes
    /\ pc = "await"
    /\ req.all.state = "rejected"
    /\ pc' = "thrown"
    /\ req' = [req EXCEPT !.thrown = Rethrow(req.all.error)]
    /\ UNCHANGED <<fetches, res>>

(* res.json(body) *)
Send(response, status, body) ==
    [ status |-> status, bodies |-> Append(response.bodies, body) ]

(* The route handler after its await: res.json(data) *)
RouteJson ==
    /\ fn \in Routes
    /\ pc = "returned"
    /\ pc' = "done"
    /\ res' = Send(res, 200, Data(fetches))
    /\ UNCHANGED <<fetches, req>>

(* The route handler's catch: next(error) *)
RouteNext ==
    /\ fn \in Routes
    /\ pc = "thrown"
    /\ pc' = "next"
    /\ req' = [req EXCEPT !.forwarded = req.thrown]
    /\ UNCHANGED <<fetches, res>>

(* err.statusCode || 500 and err.message || 'Internal Server Error' *)
StatusCode(err) == IF err.statusCode # NoStatus THEN err.statusCode ELSE 500
Message(err) == IF err.message # "" THEN err.message ELSE "Internal Server Error"

ErrorBody(err, env) ==
    IF env = "development"
    THEN [ kind |-> "error", error |-> Message(err), status |-> StatusCode(err),
           timestamp |-> "toISOString", stack |-> "stack" ]
    ELSE [ kind |-> "error", error |-> Message(err), status |-> StatusCode(err),
           timestamp |-> "toISOString" ]

(* errorHandler, which next(error) passes the error to *)
errorHandler ==
    /\ fn \in Routes
    /\ pc = "next"
    /\ pc' = "done"
    /\ res' = Send(res, StatusCode(req.forwarded),
                   ErrorBody(req.forwarded, req.env))
    /\ UNCHANGED <<fetches, req>>

InitRequest ==
    /\ fn \in Routes
    /\ pc = "await"
    /\ n = 0
    /\ txn = NoRow
    /\ keyOrder = <<>>
    /\ result = 0
    /\ NPSIdle
    /\ AccIdle
    /\ CallIdle
    /\ XirrIdle
    /\ PairIdle
    /\ fetches = [i \in 1..FetchCount[fn] |-> Pending]
    /\ req \in {NewRequest(env) : env \in Environments}
    /\ res = NoResponse
    /\ cache = <<>>
    /\ clock = 0

RequestFrame ==
    UNCHANGED <<fn, n, txn, keyOrder, result, npsVars, accVars, callVars,
                xirrVars, pairVars, cache, clock>>

NextRequest ==
    \/ \E i \in DOMAIN fetches : FetchResolve(i) /\ RequestFrame
    \/ \E i \in DOMAIN fetches : \E e \in Errors : FetchReject(i, e) /\ RequestFrame
    \/ ServiceReturn /\ RequestFrame
    \/ ServiceThrow /\ RequestFrame
    \/ RouteJson /\ RequestFrame
    \/ RouteNext /\ RequestFrame
    \/ errorHandler /\ RequestFrame

SpecRequest == InitRequest /\ [][NextRequest]_vars

---------------------------------------------------------------------------
(* The result cache: getOrCompute(key, ttlMinutes, computeFn), invalidate  *)
(* and clear.  The cache module is not among the source files; it is       *)
(* modelled from its contract: a mapping key -> (value, expiry), a lookup  *)
(* of an unexpired entry returns it with the hit marker, a lookup of an    *)
(* absent or expired one invokes computeFn, stores the result with         *)
(* now + ttlMinutes and returns it with the miss marker, and the result of *)
(* a computeFn that fails is not stored.  The contract does not say which  *)
(* of the two a lookup at the very minute of the expiry is: both happen.   *)

MaxClock == 3
MaxLookups == 3

CacheKeys == {"k1", "k2"}
CacheValues == {"v1", "v2"}
TTLs == {2}

Absent == [present |-> FALSE, value |-> "", expiry |-> 0]
Entry(value, expiry) == [present |-> TRUE, value |-> value, expiry |-> expiry]

EmptyCache == [k \in CacheKeys |-> Absent]

NoLookup == [trace |-> <<>>, computes |-> 0, before |-> EmptyCache]

(* Variant of the test with a slip in it: an entry never expires *)
Unexpired_Always(entry, t) == entry.present

Unexpired(entry, t) == entry.present /\ t < entry.expiry
Expired(entry, t) == entry.present => t > entry.expiry

Lookup(key, ttl, marker) ==
    [key |-> key, ttl |-> ttl, at |-> clock, marker |-> marker]

CacheFrame ==
    UNCHANGED <<fn, n, txn, keyOrder, npsVars, accVars, callVars,
                xirrVars, pairVars, fetches, res>>

(* getOrCompute on an entry it takes as unexpired *)
GetHit(key, ttl) ==
    /\ Len(req.trace) < MaxLookups
    /\ Unexpired(cache[key], clock) \/ ~Expired(cache[key], clock)
    /\ pc' = "looked"
    /\ result' = [value |-> cache[key].value, marker |-> "HIT", ok |-> TRUE]
    /\ req' = [req EXCEPT !.trace = Append(@, Lookup(key, ttl, "HIT")),
                          !.before = cache]
    /\ UNCHANGED <<cache, clock>>
    /\ CacheFrame

(* getOrCompute on an entry it takes as absent or expired *)
GetMiss(key, ttl, value) ==
    /\ Len(req.trace) < MaxLookups
    /\ ~Unexpired(cache[key], clock)
    /\ pc' = "looked"
    /\ result' = [value |-> value, marker |-> "MISS", ok |-> TRUE]
    /\ cache' = [cache EXCEPT ![key] = Entry(value, clock + ttl)]
    /\ req' = [req EXCEPT !.trace = Append(@, Lookup(key, ttl, "MISS")),
                          !.computes = @ + 1,
                          !.before = cache]
    /\ UNCHANGED clock
    /\ CacheFrame

(* getOrCompute whose computeFn fails: the error goes to the caller *)
GetMissFails(key, ttl) ==
    /\ Len(req.trace) < MaxLookups
    /\ ~Unexpired(cache[key], clock)
    /\ pc' = "looked"
    /\ result' = [value |-> "", marker |-> "MISS", ok |-> FALSE]
    /\ req' = [req EXCEPT !.trace = Append(@, Lookup(key, ttl, "MISS")),
                          !.computes = @ + 1,
                          !.before = cache]
    /\ UNCHANGED <<cache, clock>>
    /\ CacheFrame

invalidate(key) ==
    /\ cache[key].present
    /\ pc' = "idle"
    /\ cache' = [cache EXCEPT ![key] = Absent]
    /\ UNCHANGED <<result, req, clock>>
    /\ CacheFrame

clear ==
    /\ cache # EmptyCache
    /\ pc' = "idle"
    /\ cache' = EmptyCache
    /\ UNCHANGED <<result, req, clock>>
    /\ CacheFrame

(* A minute passes *)
Tick ==
    /\ clock < MaxClock
    /\ pc' = "idle"
    /\ clock' = clock + 1
    /\ UNCHANGED <<result, req, cache>>
    /\ CacheFrame

InitCache ==
    /\ fn = "cache"
    /\ pc = "idle"
    /\ n = 0
    /\ txn = NoRow
    /\ keyOrder = <<>>
    /\ result = [value |-> "", marker |-> "", ok |-> TRUE]
    /\ NPSIdle
    /\ AccIdle
    /\ CallIdle
    /\ XirrIdle
    /\ PairIdle
    /\ fetches = <<>>
    /\ req = NoLookup
    /\ res = NoResponse
    /\ cache = EmptyCache
    /\ clock = 0

NextCache ==
    \/ \E key \in CacheKeys, ttl \in TTLs : GetHit(key, ttl)
    \/ \E key \in CacheKeys, ttl \in TTLs, value \in CacheValues :
           GetMiss(key, ttl, value)
    \/ \E key \in CacheKeys, ttl \in TTLs : GetMissFails(key, ttl)
    \/ \E key \in CacheKeys : invalidate(key)
    \/ clear
    \/ Tick

SpecCache == InitCache /\ [][NextCache]_vars

---------------------------------------------------------------------------
(* authMiddleware (middleware/auth.js): the Authorization header, the      *)
(* token split on ".", its middle part decoded from base64 and parsed as   *)
(* JSON. Strings are sequences of characters.                              *)

MaxParts == 4

Base64Alphabet ==
    << "A", "B", "C", "D", "E", "F", "G", "H", "I", "J", "K", "L", "M",
       "N", "O", "P", "Q", "R", "S", "T", "U", "V", "W", "X", "Y", "Z",
       "a", "b", "c", "d", "e", "f", "g", "h", "i", "j", "k", "l", "m",
       "n", "o", "p", "q", "r", "s", "t", "u", "v", "w", "x", "y", "z",
       "0", "1", "2", "3", "4", "5", "6", "7", "8", "9", "+", "/" >>

(* The printable characters, from code 32; GRAVE is the grave accent *)
Ascii ==
    << " ", "!", "\"", "#", "$", "%", "&", "'", "(", ")", "*", "+", ",",
       "-", ".", "/", "0", "1", "2", "3", "4", "5", "6", "7", "8", "9",
       ":", ";", "<", "=", ">", "?", "@", "A", "B", "C", "D", "E", "F",
       "G", "H", "I", "J", "K", "L", "M", "N", "O", "P", "Q", "R", "S",
       "T", "U", "V", "W", "X", "Y", "Z", "[", "\\", "]", "^", "_",
       "GRAVE", "a", "b", "c", "d", "e", "f", "g", "h", "i", "j", "k",
       "l", "m", "n", "o", "p", "q", "r", "s", "t", "u", "v", "w", "x",
       "y", "z", "{", "|", "}", "~" >>

(* The payloads of the tokens: {}, {"sub":1}, null and { in base64, and    *)
(* an empty part                                                           *)
EmptyObject == <<"e", "3", "0">>
SubObject == <<"e", "y", "J", "z", "d", "W", "I", "i", "O", "j", "F", "9">>
NullLiteral == <<"b", "n", "V", "s", "b", "A">>
OpenBrace == <<"e", "w">>

PartWords == {EmptyObject, SubObject, NullLiteral, OpenBrace, <<>>}

Bearer == <<"B", "e", "a", "r", "e", "r", " ">>
AuthSchemes ==
    {Bearer, <<"b", "e", "a", "r", "e", "r", " ">>,
     <<"B", "e", "a", "r", "e", "r">>}

RECURSIVE Join(_)
Join(parts) ==
    IF Len(parts) = 1 THEN parts[1]
    ELSE Join(Front(parts)) \o <<".">> \o Last(parts)

Tokens == {Join(parts) : parts \in SeqsUpTo(PartWords, MaxParts) \ {<<>>}}

NoText == [present |-> FALSE, text |-> <<>>]
Text(s) == [present |-> TRUE, text |-> s]
AuthHeaders ==
    {NoText, Text(<<>>)}
        \cup {Text(scheme \o token) : scheme \in AuthSchemes, token \in Tokens}

(* JSON values *)
JSON(t, text, members) == [t |-> t, text |-> text, members |-> members]
JSONNull == JSON("null", <<>>, <<>>)
NoValue == JSON("undefined", <<>>, <<>>)

startsWith(s, prefix) ==
    Len(s) >= Len(prefix) /\ SubSeq(s, 1, Len(prefix)) = prefix

(* s.substring(from), from counted from 0 *)
substring(s, from) == SubSeq(s, from + 1, Len(s))

(* s.split('.') *)
RECURSIVE split(_)
split(s) ==
    IF s = <<>> THEN << <<>> >>
    ELSE LET before == split(Front(s))
         IN  IF Last(s) = "."
             THEN Append(before, <<>>)
             ELSE [before EXCEPT ![Len(before)] = Append(@, Last(s))]

(* Buffer.from(part, 'base64'): four characters of six bits give three     *)
(* bytes, a rest of three gives two and a rest of two gives one            *)
Sextet(c) == (CHOOSE i \in 1..64 : Base64Alphabet[i] = c) - 1

RECURSIVE Base64Bytes(_)
Base64Bytes(s) ==
    IF Len(s) >= 4
    THEN LET bits == ((Sextet(s[1]) * 64 + Sextet(s[2])) * 64
                         + Sextet(s[3])) * 64 + Sextet(s[4])
         IN  << bits \div 65536, (bits \div 256) % 256, bits % 256 >>
                 \o Base64Bytes(SubSeq(s, 5, Len(s)))
    ELSE IF Len(s) = 3
    THEN LET bits == (Sextet(s[1]) * 64 + Sextet(s[2])) * 64 + Sextet(s[3])
         IN  << bits \div 1024, (bits \div 4) % 256 >>
    ELSE IF Len(s) = 2
    THEN << (Sextet(s[1]) * 64 + Sextet(s[2])) \div 16 >>
    ELSE <<>>

(* .toString('utf-8') of bytes *)
CharOf(byte) == IF byte >= 32 /\ byte <= 126 THEN Ascii[byte - 31] ELSE "?"
toString(bytes) == [i \in 1..Len(bytes) |-> CharOf(bytes[i])]

(* JSON.parse: null, a whole number, a string without escapes, and an      *)
(* object of such values                                                   *)
ParseFail == [ok |-> FALSE, value |-> NoValue, rest |-> <<>>]
Parsed(value, rest) == [ok |-> TRUE, value |-> value, rest |-> rest]

RECURSIVE LeadingDigits(_)
LeadingDigits(s) ==
    IF s = <<>> \/ ~isDigit(Head(s)) THEN <<>>
    ELSE <<Head(s)>> \o LeadingDigits(Tail(s))

RECURSIVE UpToQuote(_)
UpToQuote(s) ==
    IF s = <<>> \/ Head(s) = "\"" THEN <<>>
    ELSE <<Head(s)>> \o UpToQuote(Tail(s))

ParseString(s) ==
    IF s = <<>> \/ Head(s) # "\"" THEN ParseFail
    ELSE LET body == UpToQuote(Tail(s))
         IN  IF Len(body) + 2 > Len(s) THEN ParseFail
             ELSE Parsed(JSON("string", body, <<>>),
                         SubSeq(s, Len(body) + 3, Len(s)))

ParseNumber(s) ==
    LET digits == LeadingDigits(s)
    IN  IF Len(digits) > 1 /\ Head(digits) = "0" THEN ParseFail
        ELSE Parsed(JSON("number", digits, <<>>),
                    SubSeq(s, Len(digits) + 1, Len(s)))

RECURSIVE ParseValue(_), ParseMembers(_, _)
ParseValue(s) ==
    IF s = <<>> THEN ParseFail
    ELSE IF startsWith(s, <<"n", "u", "l", "l">>)
    THEN Parsed(JSONNull, SubSeq(s, 5, Len(s)))
    ELSE IF Head(s) = "{"
    THEN IF Len(s) >= 2 /\ s[2] = "}"
         THEN Parsed(JSON("object", <<>>, <<>>), SubSeq(s, 3, Len(s)))
         ELSE ParseMembers(Tail(s), <<>>)
    ELSE IF Head(s) = "\"" THEN ParseString(s)
    ELSE IF isDigit(Head(s)) THEN ParseNumber(s)
    ELSE ParseFail

ParseMembers(s, members) ==
    LET key == ParseString(s)
    IN  IF ~key.ok \/ key.rest = <<>> \/ Head(key.rest) # ":" THEN ParseFail
        ELSE LET item == ParseValue(Tail(key.rest))
                 all == Append(members,
                               [key |-> key.value.text, value |-> item.value])
             IN  IF ~item.ok \/ item.rest = <<>> THEN ParseFail
                 ELSE IF Head(item.rest) = "," THEN
                     ParseMembers(Tail(item.rest), all)
                 ELSE IF Head(item.rest) = "}" THEN
                     Parsed(JSON("object", <<>>, all), Tail(item.rest))
                 ELSE ParseFail

JSONparse(s) ==
    LET parsed == ParseValue(s)
    IN  IF parsed.ok /\ parsed.rest = <<>> THEN parsed ELSE ParseFail

(* payload.sub: reading a property of null throws, a value without the     *)
(* property gives undefined, of a repeated key the last one counts         *)
RECURSIVE Member(_, _)
Member(members, key) ==
    IF members = <<>> THEN NoValue
    ELSE IF Last(members).key = key THEN Last(members).value
    ELSE Member(Front(members), key)

Throws(payload) == payload.t = "null"
sub(payload) == Member(payload.members, <<"s", "u", "b">>)

(* Line 25: parts.length !== 3 throws *)
TokenFormat_AtLeast(parts) == Len(parts) >= 3
TokenFormat(parts) == Len(parts) = 3

(* Lines 24-35: the try block; ok is FALSE where it throws *)
Decode(token) ==
    LET parts == split(token)
    IN  IF ~TokenFormat(parts) THEN [ok |-> FALSE, payload |-> NoValue]
        ELSE LET parsed == JSONparse(toString(Base64Bytes(parts[2])))
             IN  IF ~parsed.ok \/ Throws(parsed.value)
                 THEN [ok |-> FALSE, payload |-> NoValue]
                 ELSE [ok |-> TRUE, payload |-> parsed.value]

AuthRequest(header) ==
    [ authorization |-> header, token |-> NoText,
      userId |-> NoValue, user |-> NoValue, nextCalls |-> 0 ]

AuthBody(message) == [error |-> message]

(* !authHeader || !authHeader.startsWith('Bearer ') *)
HeaderRefused(header) ==
    \/ ~header.present
    \/ header.text = <<>>
    \/ ~startsWith(header.text, Bearer)

(* Lines 10-12 *)
AuthRefuse ==
    /\ fn = "auth"
    /\ pc = "start"
    /\ HeaderRefused(req.authorization)
    /\ pc' = "done"
    /\ res' = Send(res, 401, AuthBody("Missing or invalid authorization header"))
    /\ UNCHANGED req

(* Lines 14-18 *)
AuthToken ==
    /\ fn = "auth"
    /\ pc = "start"
    /\ ~HeaderRefused(req.authorization)
    /\ pc' = "try"
    /\ req' = [req EXCEPT !.token = Text(substring(req.authorization.text, 7))]
    /\ UNCHANGED res

(* Lines 22-35, the try block running to its end *)
AuthDecode ==
    /\ fn = "auth"
    /\ pc = "try"
    /\ Decode(req.token.text).ok
    /\ pc' = "decoded"
    /\ req' = [req EXCEPT !.userId = sub(Decode(req.token.text).payload),
                          !.user = Decode(req.token.text).payload]
    /\ UNCHANGED res

(* Lines 36-39, the catch block *)
AuthInvalid ==
    /\ fn = "auth"
    /\ pc = "try"
    /\ ~Decode(req.token.text).ok
    /\ pc' = "done"
    /\ res' = Send(res, 401, AuthBody("Invalid token"))
    /\ UNCHANGED req

(* Line 41 *)
AuthNext ==
    /\ fn = "auth"
    /\ pc = "decoded"
    /\ pc' = "done"
    /\ req' = [req EXCEPT !.nextCalls = @ + 1]
    /\ UNCHANGED res

InitAuth ==
    /\ fn = "auth"
    /\ pc = "start"
    /\ n = 0
    /\ txn = NoRow
    /\ keyOrder = <<>>
    /\ result = 0
    /\ NPSIdle
    /\ AccIdle
    /\ CallIdle
    /\ XirrIdle
    /\ PairIdle
    /\ fetches = <<>>
    /\ req \in {AuthRequest(header) : header \in AuthHeaders}
    /\ res = NoResponse
    /\ cache = <<>>
    /\ clock = 0

AuthFrame ==
    UNCHANGED <<fn, n, txn, keyOrder, result, npsVars, accVars, callVars,
                xirrVars, pairVars, fetches, cache, clock>>

NextAuth ==
    \/ AuthRefuse /\ AuthFrame
    \/ AuthToken /\ AuthFrame
    \/ AuthDecode /\ AuthFrame
    \/ AuthInvalid /\ AuthFrame
    \/ AuthNext /\ AuthFrame

SpecAuth == InitAuth /\ [][NextAuth]_vars

---------------------------------------------------------------------------
(* Properties of calculateNPSHoldings *)

Between == pc \in {"loop", "done"}
LastWasSale == txn \in NPSSaleRows
Sold == Abs(CurTx.units)

(* C1: for every (scheme, account) key the open lots' units add up to the  *)
(* key's running balance: 0 at the start, raised by the units of each lot  *)
(* added, and lowered at each sale by the units sold but not below 0.      *)
(* Inside a sale loop the part still to be taken is counted as taken.      *)
C1_Conservation ==
    \A k \in Keys :
        IF pc = "sale" /\ k = CurKey
        THEN Max(0, Units(lotsByScheme[k]) - remaining) = bal[k]
        ELSE Units(lotsByScheme[k]) = bal[k]

C1_Witness ==
    /\ pc = "loop"
    /\ \E k \in Keys :
          /\ Units(lotsByScheme[k]) > 0
          /\ Len(lotsByScheme[k]) >= 2
          /\ net[k] < bal[k]

(* C1 as stated: open units = max(0, total bought - total sold) *)
C1_Original ==
    Between => \A k \in Keys : Units(lotsByScheme[k]) = Max(0, net[k])

StrictlyIncreasingDates(lots) ==
    \A i \in 1..(Len(lots) - 1) : lots[i].order < lots[i + 1].order

(* C2: a sale works on the front of its key's queue only: the lots behind  *)
(* the front one keep their quantity, their other fields and their order,  *)
(* other keys' queues are untouched, and a sale of exactly the first lot's *)
(* quantity (lots bought at strictly increasing dates) leaves the queue    *)
(* without its first lot and otherwise as it was.                          *)
C2_FIFO ==
    LastWasSale =>
        \A k \in Keys :
            LET before == pre[k]
                now == lotsByScheme[k]
                gone == Len(before) - Len(now)
            IN  IF k # CurKey THEN now = before
                ELSE /\ gone \in 0..Len(before)
                     /\ \A i \in 2..Len(now) : now[i] = before[i + gone]
                     /\ now # <<>> =>
                          /\ now[1].units <= before[1 + gone].units
                          /\ now[1] = [before[1 + gone] EXCEPT !.units = now[1].units]
                     /\ ( /\ Between
                          /\ before # <<>>
                          /\ StrictlyIncreasingDates(before)
                          /\ Sold = before[1].units )
                        => now = Tail(before)

C2_Witness ==
    /\ pc = "loop"
    /\ LastWasSale
    /\ Len(pre[CurKey]) >= 2
    /\ StrictlyIncreasingDates(pre[CurKey])
    /\ Sold = pre[CurKey][1].units
    /\ lotsByScheme[CurKey] = Tail(pre[CurKey])

(* C3 as stated: a holding's invested value is the sum over the key's open *)
(* lots of remaining quantity x unit cost at acquisition.                  *)
C3_InvestedIsRemainingCost ==
    pc = "done" =>
        \A i \in 1..Len(result.holdings) :
            LET h == result.holdings[i]
                lots == lotsByScheme[<<h.schemeName, h.accountName>>]
            IN  h.invested =
                  SumSeq([j \in 1..Len(lots) |->
                             lots[j].units * navOf[lots[j].sequence]])

(* C4: a sale of more than the key's open quantity empties the key's queue *)
(* and nothing else, the excess staying unused in `remaining`; the loop of *)
(* a sale runs at most once per lot that was open when the sale began; and *)
(* no queue ever holds a lot with a negative quantity.                     *)
C4_OverSale ==
    /\ \A k \in Keys : \A i \in 1..Len(lotsByScheme[k]) :
           lotsByScheme[k][i].units >= 0
    /\ pc = "sale" =>
           /\ iters <= Len(pre[CurKey])
           /\ SaleLoopCondition(lotsByScheme[CurKey], remaining)
                  => iters < Len(pre[CurKey])
    /\ (Between /\ LastWasSale /\ Sold > Units(pre[CurKey])) =>
           /\ lotsByScheme[CurKey] = <<>>
           /\ remaining = Sold - Units(pre[CurKey])
           /\ \A k \in Keys \ {CurKey} : lotsByScheme[k] = pre[k]

C4_Witness ==
    /\ pc = "loop"
    /\ LastWasSale
    /\ Len(pre[CurKey]) >= 2
    /\ Sold > Units(pre[CurKey])
    /\ lotsByScheme[CurKey] = <<>>
    /\ iters = 2
    /\ remaining > 0

BuyTypeKind(text) ==
    \E kw \in {kwBuy, kwSip, kwContribution} : includes(LowerType[text], kw)

SaleTypeKind(text) ==
    \E kw \in {kwSell, kwRedeem, kwSwitchOut, kwWithdraw, kwExit} :
        includes(LowerType[text], kw)

(* C6 as stated: a row of kind buy, sip or contribution with positive      *)
(* units adds exactly one lot, of that quantity, with unit cost = NAV and  *)
(* the row's date, at the back of its key's queue.                         *)
C6_BuyTypeAddsLot ==
    (txn.scheme_name # "" /\ BuyTypeKind(txn.transaction_type) /\ CurTx.units > 0) =>
        /\ Len(lotsByScheme[CurKey]) = Len(pre[CurKey]) + 1
        /\ SubSeq(lotsByScheme[CurKey], 1, Len(pre[CurKey])) = pre[CurKey]
        /\ LET lot == lotsByScheme[CurKey][Len(lotsByScheme[CurKey])]
           IN  /\ lot.units = CurTx.units
               /\ lot.cost = CurTx.units * CurTx.nav
               /\ lot.date = txn.date

TreatedAsSale ==
    /\ Len(lotsByScheme[CurKey]) <= Len(pre[CurKey])
    /\ \A k \in Keys \ {CurKey} : lotsByScheme[k] = pre[k]
    /\ Between => Units(lotsByScheme[CurKey]) = Max(0, Units(pre[CurKey]) - Sold)

---------------------------------------------------------------------------
(* The accumulators, row by row *)

Bucket == IF fn = "ppf" THEN acc ELSE tot
RowApplied == fn \in {"ppf", "epf"} /\ n > 0
RowAmount == IF fn = "ppf" THEN toNumber(txn.amount) ELSE EPFAmount(txn)
RowKind == IF fn = "ppf" THEN txn.transaction_type ELSE txn.invest_type

WithdrawalKind == RowKind \in {"withdrawal", "Withdrawal"}
DepositKind == RowKind \in {"Deposit", "Contribution"}
InterestKind == RowKind \in {"interest", "Interest credit"}

InterestCut == Min(RowAmount, preAcc.interest)
InvestedCut == Min(RowAmount - InterestCut, preAcc.invested)

WithdrawalOffset ==
    /\ WithdrawalKind =>
          /\ Bucket.interest = preAcc.interest - InterestCut
          /\ Bucket.invested = preAcc.invested - InvestedCut
    /\ DepositKind => Bucket.interest = preAcc.interest
    /\ InterestKind => Bucket.invested = preAcc.invested

(* calculateEPFHoldings returns from the callback on line 139 *)
EPFSkipped == fn = "epf" /\ RowAmount <= 0

(* C8, as stated: a withdrawal of amount a takes min(a, interest) from     *)
(* interest and then min(a - that, invested) from invested; a deposit      *)
(* leaves interest alone and an interest credit leaves invested alone.     *)
C8_Original == RowApplied => WithdrawalOffset

(* C8, amended: the same, where calculateEPFHoldings applies it to rows    *)
(* whose amount is positive only: a row of calculateEPFHoldings whose      *)
(* amount is zero or negative changes neither bucket.                      *)
C8_WithdrawalOffset ==
    RowApplied =>
        IF EPFSkipped THEN Bucket = preAcc ELSE WithdrawalOffset

C8_Witness ==
    /\ fn = "ppf"
    /\ pc = "group"
    /\ txn.transaction_type = "withdrawal"
    /\ txn.amount = Num(3)
    /\ preAcc = [invested |-> 10, interest |-> 2]
    /\ acc = [invested |-> 9, interest |-> 0]

(* C9: in calculatePPFHoldings and calculateEPFHoldings the invested and   *)
(* the interest bucket are never negative, at any step and in the result.  *)
C9_NeverNegative ==
    fn \in {"ppf", "epf"} =>
        /\ acc.invested >= 0 /\ acc.interest >= 0
        /\ tot.invested >= 0 /\ tot.interest >= 0
        /\ result.invested >= 0 /\ result.interest >= 0

---------------------------------------------------------------------------
(* Order of application *)

Perms(k) == {p \in [1..k -> 1..k] : \A i, j \in 1..k : p[i] = p[j] => i = j}
Permute(s, p) == [i \in 1..Len(s) |-> s[p[i]]]
Reorderings(s) == {Permute(s, p) : p \in Perms(Len(s))}

DistinctDates(rows) ==
    \A i, j \in 1..Len(rows) : rows[i].date = rows[j].date => i = j

Ascending(list) ==
    \A i, j \in 1..Len(list) :
        i < j =>
            \/ getTime(list[i].effectiveDate) < getTime(list[j].effectiveDate)
            \/ /\ getTime(list[i].effectiveDate) = getTime(list[j].effectiveDate)
               /\ list[i].index < list[j].index

AllKept(list) ==
    /\ \A i \in 1..Len(transactions) :
          Kept(transactions[i]) =>
              \E j \in 1..Len(list) : list[j] = Prepare(transactions[i], i - 1)
    /\ Len(list) = Cardinality({i \in 1..Len(transactions) : Kept(transactions[i])})

(* C5: calculateNPSHoldings applies the kept rows in ascending effective   *)
(* date, rows of one date in the order of their input index, and the       *)
(* result is the same for every reordering of an input whose rows have     *)
(* pairwise distinct dates.                                                *)
C5_DateOrder ==
    (fn = "nps" /\ pc = "done" /\ transactions # <<>>) =>
        /\ Ascending(preparedTransactions)
        /\ AllKept(preparedTransactions)
        /\ \A cmpMap \in CmpMaps :
              /\ result = calculateNPSHoldings(transactions, cmpMap)
              /\ DistinctDates(transactions) =>
                    \A other \in Reorderings(transactions) :
                        calculateNPSHoldings(other, cmpMap) = result

C5_Witness ==
    /\ fn = "nps"
    /\ pc = "done"
    /\ Len(transactions) = 3
    /\ DistinctDates(transactions)
    /\ transactions[1].date = 2
    /\ transactions[2].date = NoDate
    /\ transactions[3].date = 1
    /\ transactions[1].transaction_type = "sell"
    /\ transactions[3].transaction_type = "Buy"
    /\ transactions[1].scheme_name = transactions[3].scheme_name
    /\ Len(preparedTransactions) = 3
    /\ preparedTransactions[1].index = 2
    /\ preparedTransactions[3].index = 1

(* C10: the pair calculatePPFHoldings and calculateEPFHoldings return does *)
(* not depend on the order in which the rows appear in the input.          *)
C10_OrderIndependent ==
    (fn \in {"ppf", "epf"} /\ pc = "done") =>
        \A other \in Reorderings(transactions) :
            IF fn = "ppf"
            THEN calculatePPFHoldings(other) = result
            ELSE calculateEPFHoldings(other) = result

---------------------------------------------------------------------------
(* Properties of calculateXirr *)

Usable == Len(Cashflows(flows))
Returned == fn = "xirr" /\ pc = "done"

(* C11: calculateXirr returns 0 whenever fewer than two cashflows remain   *)
(* after the zero-amount, non-finite-amount and invalid-date entries are   *)
(* discarded.                                                              *)
C11_FewerThanTwoIsZero == (Returned /\ Usable < 2) => result = 0

Bisected == Returned /\ cashflows # <<>>

ReturnsMidpoint ==
    /\ fn = "xirr" => iter <= MaxIterations /\ result \in Int
    /\ Bisected =>
          /\ result = mid * Percent
          /\ IF Converged(npv(cashflows, mid))
             THEN iter < MaxIterations
             ELSE iter = MaxIterations

NoPassAfterConvergence ==
    (pc = "loop" /\ pc' = "loop") => ~Converged(npv(cashflows, mid'))

Outflow == [amount |-> Num(-100), date |-> 0]
Inflow == [amount |-> Num(110), date |-> DaysPerYear]
TenPercentFlows == flows \in {<<Outflow, Inflow>>, <<Inflow, Outflow>>}

(* C13: for the cashflows (day 0, -100000) and (day 365, +110000)          *)
(* calculateXirr returns a percentage within 0.1 of 10.                    *)
C13_TenPercent ==
    (Returned /\ TenPercentFlows) =>
        Abs(result - 10 * RateScale) * 10 <= RateScale

C13_Witness ==
    /\ Returned
    /\ flows = <<Inflow, Outflow>>
    /\ cashflows = <<MapFlow(Outflow), MapFlow(Inflow)>>
    /\ result > 9 * RateScale
    /\ result < 11 * RateScale

---------------------------------------------------------------------------
(* Properties of calculateBankHoldings *)

BankReturned == fn = "bank" /\ pc = "done"

Dated(k) == transactions[k].txn_date # NoDate
MonthOfRow(k) == monthNumeric(transactions[k].txn_date)
TypeOfRow(k) == LowerType[transactions[k].account_type]

(* The latest month of any dated row, and of the dated savings/demat rows *)
LatestOfInput ==
    latestMonthNumeric(transactions)
LatestOfBank ==
    latestMonthNumeric(SelectSeq(transactions, isBankType))

RowsIn(type, month) ==
    {k \in 1..Len(transactions) :
        Dated(k) /\ TypeOfRow(k) = type /\ MonthOfRow(k) = month}

RECURSIVE AmountOf(_)
AmountOf(rowSet) ==
    IF rowSet = {} THEN 0
    ELSE LET k == CHOOSE j \in rowSet : TRUE
         IN  toNumber(transactions[k].amount) + AmountOf(rowSet \ {k})

(* Every amount in the sums is the amount of a row of the month *)
OnlyMonth(month) ==
    /\ \E counted \in SUBSET RowsIn(kwSavings, month) :
          result.savings = AmountOf(counted)
    /\ \E counted \in SUBSET RowsIn(kwDemat, month) :
          result.demat = AmountOf(counted)
    /\ result.total = result.savings + result.demat

(* C14, as stated: only savings/demat rows dated in the most recent        *)
(* calendar month present in the input are counted, and total = savings +  *)
(* demat.                                                                  *)
C14_Original == BankReturned => OnlyMonth(LatestOfInput)

(* C14, amended: only savings/demat rows dated in the most recent calendar *)
(* month of the dated savings/demat rows are counted (rows of other        *)
(* account types do not set the month), and total = savings + demat.       *)
C14_LatestMonthOnly == BankReturned => OnlyMonth(LatestOfBank)

C14_Witness ==
    /\ BankReturned
    /\ Len(transactions) = 3
    /\ LatestOfBank = 202402
    /\ \E k \in RowsIn(kwSavings, 202401) : transactions[k].amount = Num(2)
    /\ RowsIn(kwDemat, 202401) # {}
    /\ \E k \in RowsIn(kwSavings, 202402) : transactions[k].amount = Num(1)
    /\ result = [savings |-> 1, demat |-> 0, total |-> 1]

(* C15: every row of a group dated in the latest month is in the sum: the  *)
(* sums are those of all the savings and all the demat rows of that month. *)
C15_AllOfLatestMonth ==
    (BankReturned /\ LatestOfBank >= 0) =>
        /\ result.savings = AmountOf(RowsIn(kwSavings, LatestOfBank))
        /\ result.demat = AmountOf(RowsIn(kwDemat, LatestOfBank))

---------------------------------------------------------------------------
(* The holdings calculateNPSHoldings returns *)

NPSReturned == fn = "nps" /\ pc = "done"
Reported(key) ==
    {h \in 1..Len(result.holdings) :
        <<result.holdings[h].schemeName, result.holdings[h].accountName>> = key}

(* C16: one holding for each key with open units, none for a key whose     *)
(* lots are all consumed, every holding with units > 0, and the totals the *)
(* sums over the holdings.                                                 *)
C16_OneHoldingPerOpenKey ==
    NPSReturned =>
        /\ \A key \in Keys :
              Cardinality(Reported(key)) =
                  IF Units(lotsByScheme[key]) > 0 THEN 1 ELSE 0
        /\ \A h \in 1..Len(result.holdings) :
              /\ result.holdings[h].units > 0
              /\ result.holdings[h].units =
                    Units(lotsByScheme[<<result.holdings[h].schemeName,
                                         result.holdings[h].accountName>>])
        /\ result.marketValue =
              SumSeq([h \in 1..Len(result.holdings) |->
                          result.holdings[h].marketValue])
        /\ result.invested =
              SumSeq([h \in 1..Len(result.holdings) |->
                          result.holdings[h].invested])

C16_Witness ==
    /\ NPSReturned
    /\ Len(keyOrder) = 2
    /\ lotsByScheme[keyOrder[1]] = <<>>
    /\ bal[keyOrder[1]] = 0
    /\ net[keyOrder[1]] = 0
    /\ Len(result.holdings) = 1
    /\ result.holdings[1].schemeName = keyOrder[2][1]

(* C17: a holding's market value is its open units times the price of its  *)
(* scheme in the lookup; a scheme without an entry is priced 0, its market *)
(* value is 0 and its holding is still returned.                           *)
C17_MarketValue ==
    NPSReturned =>
        \E cmpMap \in CmpMaps :
            /\ \A h \in 1..Len(result.holdings) :
                  LET holding == result.holdings[h]
                      price == IF holding.schemeName \in DOMAIN cmpMap
                               THEN cmpMap[holding.schemeName] ELSE 0
                  IN  /\ holding.cmp = price
                      /\ holding.marketValue = holding.units * price
            /\ \A key \in Keys :
                  (Units(lotsByScheme[key]) > 0 /\ key[1] \notin DOMAIN cmpMap)
                      => \E h \in Reported(key) :
                            result.holdings[h].marketValue = 0

C17_Witness ==
    /\ NPSReturned
    /\ Len(result.holdings) = 2
    /\ result.holdings[1].schemeName = "SchemeG"
    /\ result.holdings[1].units = 2
    /\ result.holdings[1].marketValue = 0
    /\ result.holdings[2].schemeName = "SchemeE"
    /\ result.holdings[2].units = 1
    /\ result.holdings[2].marketValue = 3

---------------------------------------------------------------------------
(* The mutual-fund pass of getAnalysisSummary *)

(* C18: the active mutual-fund positions of getAnalysisSummary are those   *)
(* of the FIFO lot queue on the same transactions: the units and the       *)
(* invested amount of the purchase lots left after the redemptions have    *)
(* consumed the oldest lots first, an over-redemption leaving no units.    *)
C18_ActiveIsLedger ==
    (fn = "mf" /\ pc = "done") =>
        result = ledgerActive(FundKeys(transactions), transactions)

---------------------------------------------------------------------------
(* The input array *)

---------------------------------------------------------------------------
(* Invocations side by side *)

Expected(c) ==
    IF invocations[c].fn = "nps"
    THEN {calculateNPSHoldings(invocations[c].rows, cmpMap) : cmpMap \in CmpMaps}
    ELSE {calculateEPFHoldings(invocations[c].rows)}

---------------------------------------------------------------------------
(* Numeric fields that are no proper numbers *)

(* The characters the numeric parsing keeps, and the decimals they spell *)
NumberChars == {"0","1","2","3","4","5","6","7","8","9",".","-"}
DigitChars == NumberChars \ {".", "-"}

IsDecimal(d) ==
    LET body == IF d # <<>> /\ Head(d) = "-" THEN Tail(d) ELSE d
    IN  /\ \A i \in 1..Len(body) : body[i] \in DigitChars \cup {"."}
        /\ Cardinality({i \in 1..Len(body) : body[i] = "."}) <= 1
        /\ \E i \in 1..Len(body) : body[i] \in DigitChars

(* A text no prefix of whose number characters is a decimal *)
Unparseable(s) ==
    LET kept == SelectSeq(s, LAMBDA c : c \in NumberChars)
    IN  \A k \in 0..Len(kept) : ~IsDecimal(SubSeq(kept, 1, k))

(* null, missing, non-finite or unparseable *)
Improper(value) ==
    \/ value.t \in {"null", "undefined", "nan", "inf", "bool"}
    \/ value.t = "str" /\ Unparseable(value.s)

NumericFields ==
    {"units", "nav", "amount", "employee_share", "employer_share",
     "pension_share", "quantity", "buy_price", "value"}

ZeroedRow(row) ==
    [f \in DOMAIN row |->
        IF f \in NumericFields /\ Improper(row[f]) THEN Num(0) ELSE row[f]]

Zeroed(rows) == [k \in 1..Len(rows) |-> ZeroedRow(rows[k])]

Computed(rows) ==
    CASE fn = "toNumber" -> toNumber(rows[1].value)
      [] fn = "nps" -> calculateNPSHoldings(rows, CHOOSE cmpMap \in CmpMaps : TRUE)
      [] fn = "ppf" -> calculatePPFHoldings(rows)
      [] fn = "epf" -> calculateEPFHoldings(rows)
      [] fn = "bank" -> calculateBankHoldings(rows)
      [] fn = "summary" -> getAnalysisSummary(rows)

(* C21: a numeric field that is null, missing, non-finite or unparseable   *)
(* counts as the number 0: toNumber returns a finite number, 0 for such a  *)
(* value, and every aggregator returns, with what it returns on the same   *)
(* rows with those fields set to 0                                         *)
C21_ImproperIsZero ==
    pc = "done" =>
        /\ result = Computed(Zeroed(transactions))
        /\ fn = "toNumber" => result \in Int

---------------------------------------------------------------------------
(* Profit percentages *)

(* The percentages a returned value reports, each with the amounts of its  *)
(* entry                                                                   *)
Percentages ==
    IF fn = "dashboard"
    THEN { [invested |-> e.invested, marketValue |-> e.marketValue,
            percent |-> e.profitPercent] :
               e \in {result.accountWise[k] : k \in 1..Len(result.accountWise)} }
         \cup
         { [invested |-> e.invested, marketValue |-> e.marketValue,
            percent |-> e.percent] :
               e \in {result.stocks[k] : k \in 1..Len(result.stocks)} }
    ELSE { [invested |-> e.invested, marketValue |-> e.marketValue,
            percent |-> e.profitPercent] :
               e \in {result.freeStocks[k] : k \in 1..Len(result.freeStocks)}
                     \cup
                     {result.regularStocks[k] : k \in 1..Len(result.regularStocks)} }

PercentIs(p) ==
    IF p.invested > 0
    THEN /\ p.percent.t = "frac"
         /\ p.percent.den > 0
         /\ p.percent.num * p.invested =
                (p.marketValue - p.invested) * 100 * p.percent.den
    ELSE p.percent.t = "num" /\ p.percent.v = 0

(* C22: every reported profit percentage is 0 when the invested amount is  *)
(* not positive and (marketValue - invested) / invested * 100 otherwise,   *)
(* and is never NaN or infinite                                            *)
C22_ProfitPercent ==
    (fn \in {"dashboard", "freeStocks"} /\ pc = "done") =>
        \A p \in Percentages : PercentIs(p)

(* A lot bought at price 0 and priced at 3 on the market: 0 percent, and a *)
(* position with a gain beside it                                          *)
C22_Witness ==
    /\ fn = "freeStocks"
    /\ pc = "done"
    /\ \E p \in Percentages :
          p.invested = 0 /\ p.marketValue > 0 /\ p.percent = Num(0)
    /\ \E p \in Percentages :
          /\ p.invested = 4
          /\ p.marketValue = 6
          /\ p.percent.t = "frac"
          /\ p.percent.num = 50 * p.percent.den

---------------------------------------------------------------------------
(* A failed fetch during an analysis request *)

(* The error of the fetch that rejected first *)
Failed == fn \in Routes /\ req.all.state = "rejected"

IsErrorBody(body, err) ==
    /\ body.kind = "error"
    /\ body.error = (IF err.message = "" THEN "Internal Server Error" ELSE err.message)
    /\ body.status = (IF err.statusCode = NoStatus THEN 500 ELSE err.statusCode)
    /\ "timestamp" \in DOMAIN body

(* C23: once a fetch has rejected, the service rethrows that error, the    *)
(* route passes it to next(error) and sends no data, and the response is   *)
(* one JSON error object with the message, status = err.statusCode or 500  *)
(* and a timestamp; a response never has more than one body, and a data    *)
(* body is made of the rows of every fetch                                 *)
C23_OneErrorObject ==
    fn \in Routes =>
        /\ Len(res.bodies) <= 1
        /\ \A k \in 1..Len(res.bodies) :
              res.bodies[k].kind = "data" =>
                  res.bodies[k].tables = 1..FetchCount[fn]
        /\ Failed =>
              /\ pc \in {"thrown", "next", "done"} => req.thrown = req.all.error
              /\ pc \in {"next", "done"} => req.forwarded = req.all.error
              /\ pc # "done" => res = NoResponse
              /\ pc = "done" =>
                    /\ Len(res.bodies) = 1
                    /\ IsErrorBody(res.bodies[1], req.all.error)
                    /\ res.status = res.bodies[1].status

(* Eventually the failed request is answered *)
C23_Witness ==
    /\ fn = "GET /summary"
    /\ pc = "done"
    /\ Failed
    /\ req.all.error = [message |-> "fetch failed", statusCode |-> 503]
    /\ \E i \in DOMAIN fetches : fetches[i].state = "fulfilled"
    /\ \E i \in DOMAIN fetches :
          fetches[i].state = "rejected" /\ fetches[i].error # req.all.error
    /\ res.status = 503
    /\ res.bodies = <<[ kind |-> "error", error |-> "fetch failed",
                        status |-> 503, timestamp |-> "toISOString" ]>>

---------------------------------------------------------------------------
(* The result cache *)

LastLookup == req.trace[Len(req.trace)]
EntryBefore == req.before[LastLookup.key]

(* C24: a lookup of a key that has no entry (the first one, for a start)   *)
(* or whose entry's expiry has passed is a MISS that invokes computeFn     *)
(* and stores what it returns with expiry now + TTL; a lookup before the   *)
(* entry's expiry is a HIT that returns the stored value, invokes nothing  *)
(* and leaves the cache as it is                                           *)
C24_HitMissSequence ==
    /\ (fn = "cache" /\ pc = "looked") =>
          IF ~EntryBefore.present \/ LastLookup.at > EntryBefore.expiry
          THEN /\ LastLookup.marker = "MISS"
               /\ result.marker = "MISS"
               /\ result.ok =>
                     cache = [req.before EXCEPT ![LastLookup.key] =
                                 Entry(result.value, LastLookup.at + LastLookup.ttl)]
          ELSE LastLookup.at < EntryBefore.expiry =>
                  /\ LastLookup.marker = "HIT"
                  /\ result = [value |-> EntryBefore.value, marker |-> "HIT",
                               ok |-> TRUE]
                  /\ cache = req.before
    /\ fn = "cache" =>
          /\ \A i \in 1..Len(req.trace) :
                (\A j \in 1..(i - 1) : req.trace[j].key # req.trace[i].key)
                    => req.trace[i].marker = "MISS"
          /\ req.computes =
                Cardinality({i \in 1..Len(req.trace) : req.trace[i].marker = "MISS"})

(* MISS at minute 0 with a TTL of 2, HIT at minute 1, MISS at minute 3 *)
C24_Witness ==
    /\ fn = "cache"
    /\ pc = "looked"
    /\ req.trace = << [key |-> "k1", ttl |-> 2, at |-> 0, marker |-> "MISS"],
                      [key |-> "k1", ttl |-> 2, at |-> 1, marker |-> "HIT"],
                      [key |-> "k1", ttl |-> 2, at |-> 3, marker |-> "MISS"] >>
    /\ clock = 3
    /\ req.before["k1"] = Entry("v1", 2)
    /\ cache["k1"] = Entry("v2", 5)
    /\ req.computes = 2

---------------------------------------------------------------------------
(* The bracket of the bisection *)

Width == high - low

InBracket ==
    (fn = "xirr" /\ cashflows # <<>> /\ iter > 0) =>
        /\ LowStart <= low
        /\ low <= mid
        /\ mid <= high
        /\ high <= HighStart

(* A pass that does not return moves the end the sign of NPV(mid) names *)
MovesOneEnd ==
    (pc = "loop" /\ pc' = "loop") =>
        /\ mid' * 2 <= low + high
        /\ mid' * 2 >= low + high - 1
        /\ IF npv(cashflows, mid').num > 0
           THEN low' = mid' /\ high' = high
           ELSE high' = mid' /\ low' = low

HalvesExactly == (pc = "loop" /\ pc' = "loop") => 2 * Width' = Width
HalvesRounded ==
    (pc = "loop" /\ pc' = "loop") => 2 * Width' \in {Width - 1, Width, Width + 1}

StrictlyInside ==
    Bisected => LowStart * Percent < result /\ result < HighStart * Percent
Inside ==
    Bisected => LowStart * Percent <= result /\ result <= HighStart * Percent

(* C25 as stated: after every pass -0.9999 <= low <= mid <= high <= 100,   *)
(* a positive NPV(mid) raises low to mid and any other lowers high to mid, *)
(* the width of the bracket halves at every pass, and the percentage       *)
(* returned is strictly between -99.99 and 10000                           *)
C25_Original ==
    /\ []InBracket
    /\ [][MovesOneEnd]_vars
    /\ [][HalvesExactly]_vars
    /\ []StrictlyInside

(* C25: the same with the width halving up to the rounding of the          *)
(* midpoint and with the ends of the bracket among the values returned     *)
C25_Bracket ==
    /\ []InBracket
    /\ [][MovesOneEnd]_vars
    /\ [][HalvesRounded]_vars
    /\ []Inside

(* Two outflows: every NPV is negative, high comes down to low and the     *)
(* lower end itself is returned                                            *)
C25_Witness ==
    /\ Bisected
    /\ iter = MaxIterations
    /\ Len(cashflows) = 2
    /\ \A k \in 1..2 : cashflows[k].amount.v < 0
    /\ low = LowStart
    /\ mid = low
    /\ high \in {low, low + 1}
    /\ result = LowStart * Percent

---------------------------------------------------------------------------
(* Groups of calculateBankHoldings without a row in the snapshot month *)

BankRows == SelectSeq(transactions, isBankType)
BankGroupKeys == {BankKey(BankRows[k]) : k \in 1..Len(BankRows)}
BankGroupRows(key) == SelectSeq(BankRows, LAMBDA row : BankKey(row) = key)
RowInMonth(row, month) ==
    row.txn_date # NoDate /\ monthNumeric(row.txn_date) = month
StaleGroup(key) ==
    SelectSeq(BankGroupRows(key), LAMBDA row : RowInMonth(row, LatestOfBank)) = <<>>
WithoutGroup(key) == SelectSeq(transactions, LAMBDA row : BankKey(row) # key)
TypedBankGroups(type) == {key \in BankGroupKeys : LowerType[key[3]] = type}

(* C26: a group with no row dated in the latest month of all the dated     *)
(* savings/demat rows adds nothing to savings, demat and total, whatever   *)
(* rows of earlier months it has: the sums are those of the input without  *)
(* the group, and a sum whose groups all lack a row of that month is 0.    *)
C26_StaleGroupAddsNothing ==
    BankReturned =>
        /\ \A key \in BankGroupKeys :
              StaleGroup(key) => result = calculateBankHoldings(WithoutGroup(key))
        /\ (\A key \in TypedBankGroups(kwSavings) : StaleGroup(key))
              => result.savings = 0
        /\ (\A key \in TypedBankGroups(kwDemat) : StaleGroup(key))
              => result.demat = 0

C26_Witness ==
    /\ BankReturned
    /\ Len(transactions) = 2
    /\ LatestOfBank = 202402
    /\ \E key \in TypedBankGroups(kwSavings) :
          /\ StaleGroup(key)
          /\ \E k \in 1..Len(BankGroupRows(key)) :
                /\ RowInMonth(BankGroupRows(key)[k], 202401)
                /\ BankGroupRows(key)[k].amount = Num(2)
    /\ result = [savings |-> 0, demat |-> 1, total |-> 1]

---------------------------------------------------------------------------
(* Properties of authMiddleware *)

HeaderText == req.authorization.text
BearerHeader ==
    /\ req.authorization.present
    /\ Len(HeaderText) >= Len(Bearer)
    /\ \A i \in 1..Len(Bearer) : HeaderText[i] = Bearer[i]
TokenText == SubSeq(HeaderText, Len(Bearer) + 1, Len(HeaderText))
Dots == {i \in 1..Len(TokenText) : TokenText[i] = "."}
FirstDot == CHOOSE i \in Dots : \A j \in Dots : i <= j
SecondDot == CHOOSE i \in Dots : \A j \in Dots : j <= i
ThreeParts == Cardinality(Dots) = 2
Middle == SubSeq(TokenText, FirstDot + 1, SecondDot - 1)
Payload == JSONparse(toString(Base64Bytes(Middle)))

(* The two outcomes of a request *)
Passed ==
    req.nextCalls = 1 /\ res = NoResponse
Refused ==
    /\ req.nextCalls = 0
    /\ res.status = 401
    /\ Len(res.bodies) = 1

OneOutcome ==
    /\ req.nextCalls = 0 \/ res = NoResponse
    /\ req.nextCalls <= 1
    /\ Len(res.bodies) <= 1
    /\ pc = "done" => (Passed \/ Refused)

=============================================================================
